---------------------------- MODULE Spec2Model ----------------------------
(***************************************************************************)
(* DS News Aggregator: the scoring-and-filtering pipeline.                 *)
(*                                                                         *)
(* The module models ContentFilter (collectors/content_filter.py) and      *)
(* DSNewsPipeline (processors/pipeline.py) with the tables of Config       *)
(* (config.py).                                                            *)
(*                                                                         *)
(* Text.  A Python str is a sequence of characters, each character a TLA+  *)
(* string: an ASCII character is itself ("a", " ", "!"), a Hangul syllable *)
(* is named by its code point ("U+AC00").  `in`, lower(), startswith() and *)
(* re.sub() are computed on these sequences.                               *)
(*                                                                         *)
(* Dicts.  An article is a record; a key the dict does not hold is a field *)
(* the record does not have, and d.get(k, default) is Get(d, k, default).  *)
(*                                                                         *)
(* Time.  A datetime is the record of its calendar fields, to the hour,     *)
(* with its UTC offset; differences are taken through proleptic ordinals,  *)
(* as datetime takes them.                                                 *)
(***************************************************************************)
EXTENDS Integers, Sequences, FiniteSets, TLC

VARIABLES
  now,              \* datetime.now(timezone.utc) of the call
  title,            \* calculate_score: argument
  content,          \* calculate_score: argument
  source_id,        \* calculate_score: argument
  score,            \* calculate_score: [called, raw, value]
  articles,         \* the argument list of the list operations
  dedup,            \* remove_duplicates: [called, unique_articles, dropped]
  recency,          \* filter_all_articles_by_keywords: [called, raised, filtered]
  step2,            \* step2_filter_articles: [called, path, raised, filtered_articles]
  pc,               \* run_full_pipeline: position of the run
  pipeline_stats,   \* DSNewsPipeline.pipeline_stats
  invoked,          \* run_full_pipeline: the steps the run has invoked, in order
  store,            \* the files step5_save_articles writes: ARTICLES_FILE and the history file
  store_access,     \* the reads and writes of these files during the run, in order
  summarizer,       \* Summarizer: request and error counters, kill switch, cache, model
  summary,          \* summarize_text: the last call, with what held before it
  step3             \* step3_translate_articles: [called, articles, result_articles]

vars == <<now, title, content, source_id, score, articles, dedup, recency, step2,
          pc, pipeline_stats, invoked, store, store_access,
          summarizer, summary, step3>>

-----------------------------------------------------------------------------
(* Python built-ins *)

Max(a, b) == IF a >= b THEN a ELSE b

Min(a, b) == IF a <= b THEN a ELSE b

(* d.get(key, default) *)
Get(d, key, default) == IF key \in DOMAIN d THEN d[key] ELSE default

(* The ASCII capitals and their lower case. *)
AsciiLower ==
  [A |-> "a", B |-> "b", C |-> "c", D |-> "d", E |-> "e", F |-> "f", G |-> "g",
   H |-> "h", I |-> "i", J |-> "j", K |-> "k", L |-> "l", M |-> "m", N |-> "n",
   O |-> "o", P |-> "p", Q |-> "q", R |-> "r", S |-> "s", T |-> "t", U |-> "u",
   V |-> "v", W |-> "w", X |-> "x", Y |-> "y", Z |-> "z"]

(* str.lower() on one character: any character of the model that is no ASCII
   capital is its own lower case. *)
LowerChar(c) == IF c \in DOMAIN AsciiLower THEN AsciiLower[c] ELSE c

(* str.lower() *)
RECURSIVE Lower(_)
Lower(s) == IF s = <<>> THEN <<>> ELSE <<LowerChar(Head(s))>> \o Lower(Tail(s))

(* sub in s *)
Contains(s, sub) ==
  \E i \in 0..(Len(s) - Len(sub)) : \A j \in 1..Len(sub) : s[i + j] = sub[j]

(* s.startswith(prefix) *)
StartsWith(s, prefix) ==
  /\ Len(prefix) <= Len(s)
  /\ \A j \in 1..Len(prefix) : s[j] = prefix[j]

-----------------------------------------------------------------------------
(* Config (config.py) *)

BASE_SCORE == 50

MIN_SCORE_THRESHOLD == 70

FINAL_ARTICLE_COUNT == 20

MAX_ARTICLE_AGE_DAYS == 60

MIN_PUBLISH_YEAR == 2025

(* Config.PRIORITY_KEYWORDS: keyword -> bonus, in dict order. *)
PRIORITY_KEYWORDS ==
  <<
    [keyword |-> <<"U+BC29","U+BC95">>, bonus |-> 15],
    [keyword |-> <<"U+AC00","U+C774","U+B4DC">>, bonus |-> 20],
    [keyword |-> <<"U+BD84","U+C11D">>, bonus |-> 15], [keyword |-> <<"U+BE44","U+AD50">>, bonus |-> 15],
    [keyword |-> <<"U+AD6C","U+D604">>, bonus |-> 20], [keyword |-> <<"L","L","M">>, bonus |-> 20],
    [keyword |-> <<"U+C2DC","U+ACC4","U+C5F4">>, bonus |-> 15],
    [keyword |-> <<"m","e","t","h","o","d">>, bonus |-> 15],
    [keyword |-> <<"g","u","i","d","e">>, bonus |-> 20],
    [keyword |-> <<"a","n","a","l","y","s","i","s">>, bonus |-> 15],
    [keyword |-> <<"c","o","m","p","a","r","i","s","o","n">>, bonus |-> 15],
    [keyword |-> <<"i","m","p","l","e","m","e","n","t","a","t","i","o","n">>, bonus |-> 20],
    [keyword |-> <<"t","i","m","e"," ","s","e","r","i","e","s">>, bonus |-> 15]
  >>

(* Config.EXCLUDE_PATTERNS. *)
EXCLUDE_PATTERNS ==
  <<
    <<"U+CD94","U+CC9C","U+D574","U+C8FC","U+C138","U+C694">>,
    <<"U+C5B4","U+B5BB","U+AC8C"," ","U+C0DD","U+AC01">>, <<"U+AC10","U+D0C4","U+C0AC">>,
    <<"r","e","c","o","m","m","e","n","d">>,
    <<"w","h","a","t"," ","d","o"," ","y","o","u"," ","t","h","i","n","k">>
  >>

(* Config.SOURCE_BASE_SCORES: source_id -> base score. *)
SOURCE_BASE_SCORES ==
  <<
    [source_id |-> <<"t","e","c","h","c","r","u","n","c","h","_","a","i">>, base |-> 100],
    [source_id |-> <<"m","i","t","_","t","e","c","h","_","r","e","v","i","e","w">>, base |-> 110],
    [source_id |-> <<"w","i","r","e","d","_","a","i">>, base |-> 105],
    [source_id |-> <<"t","e","c","h","4","2">>, base |-> 85],
    [source_id |-> <<"t","o","w","a","r","d","s","_","d","a","t","a","_","s","c","i","e","n","c","e">>, base |-> 80],
    [source_id |-> <<"a","n","a","l","y","t","i","c","s","_","v","i","d","h","y","a">>, base |-> 75],
    [source_id |-> <<"k","d","n","u","g","g","e","t","s">>, base |-> 75],
    [source_id |-> <<"d","i","s","t","i","l","l">>, base |-> 90],
    [source_id |-> <<"h","u","g","g","i","n","g","f","a","c","e","_","b","l","o","g">>, base |-> 85],
    [source_id |-> <<"g","o","o","g","l","e","_","d","e","v","e","l","o","p","e","r","s">>, base |-> 70],
    [source_id |-> <<"a","w","s","_","m","l">>, base |-> 75],
    [source_id |-> <<"m","i","c","r","o","s","o","f","t","_","a","i">>, base |-> 75],
    [source_id |-> <<"o","p","e","n","a","i","_","b","l","o","g">>, base |-> 90],
    [source_id |-> <<"n","v","i","d","i","a","_","b","l","o","g">>, base |-> 75]
  >>

(* Config.DS_KEYWORDS. *)
DS_KEYWORDS ==
  <<
    <<"m","a","c","h","i","n","e"," ","l","e","a","r","n","i","n","g">>,
    <<"d","e","e","p"," ","l","e","a","r","n","i","n","g">>,
    <<"a","r","t","i","f","i","c","i","a","l"," ","i","n","t","e","l","l","i","g","e","n","c","e">>,
    <<"n","e","u","r","a","l"," ","n","e","t","w","o","r","k">>,
    <<"d","a","t","a"," ","s","c","i","e","n","c","e">>,
    <<"d","a","t","a"," ","a","n","a","l","y","s","i","s">>,
    <<"s","t","a","t","i","s","t","i","c","s">>,
    <<"s","t","a","t","i","s","t","i","c","a","l"," ","l","e","a","r","n","i","n","g">>,
    <<"l","l","m">>,
    <<"l","a","r","g","e"," ","l","a","n","g","u","a","g","e"," ","m","o","d","e","l">>,
    <<"g","p","t">>, <<"b","e","r","t">>, <<"t","r","a","n","s","f","o","r","m","e","r">>,
    <<"c","h","a","t","g","p","t">>, <<"g","e","n","e","r","a","t","i","v","e"," ","a","i">>,
    <<"n","a","t","u","r","a","l"," ","l","a","n","g","u","a","g","e"," ","p","r","o","c","e","s","s","i","n","g">>,
    <<"n","l","p">>, <<"l","a","n","g","u","a","g","e"," ","m","o","d","e","l">>,
    <<"c","o","m","p","u","t","e","r"," ","v","i","s","i","o","n">>,
    <<"r","e","i","n","f","o","r","c","e","m","e","n","t"," ","l","e","a","r","n","i","n","g">>,
    <<"s","u","p","e","r","v","i","s","e","d"," ","l","e","a","r","n","i","n","g">>,
    <<"u","n","s","u","p","e","r","v","i","s","e","d"," ","l","e","a","r","n","i","n","g">>,
    <<"c","l","a","s","s","i","f","i","c","a","t","i","o","n">>,
    <<"r","e","g","r","e","s","s","i","o","n">>, <<"c","l","u","s","t","e","r","i","n","g">>,
    <<"d","i","m","e","n","s","i","o","n","a","l","i","t","y"," ","r","e","d","u","c","t","i","o","n">>,
    <<"f","e","a","t","u","r","e"," ","e","n","g","i","n","e","e","r","i","n","g">>,
    <<"m","o","d","e","l"," ","t","r","a","i","n","i","n","g">>,
    <<"h","y","p","e","r","p","a","r","a","m","e","t","e","r">>,
    <<"o","p","t","i","m","i","z","a","t","i","o","n">>,
    <<"t","e","n","s","o","r","f","l","o","w">>, <<"p","y","t","o","r","c","h">>,
    <<"k","e","r","a","s">>, <<"s","c","i","k","i","t","-","l","e","a","r","n">>,
    <<"p","a","n","d","a","s">>, <<"n","u","m","p","y">>,
    <<"h","u","g","g","i","n","g","f","a","c","e">>,
    <<"o","p","e","n","a","i"," ","a","p","i">>, <<"l","a","n","g","c","h","a","i","n">>,
    <<"v","e","c","t","o","r"," ","d","a","t","a","b","a","s","e">>,
    <<"b","i","g"," ","d","a","t","a">>, <<"d","a","t","a"," ","m","i","n","i","n","g">>,
    <<"p","r","e","d","i","c","t","i","v","e"," ","a","n","a","l","y","t","i","c","s">>,
    <<"t","i","m","e"," ","s","e","r","i","e","s">>,
    <<"d","a","t","a"," ","v","i","s","u","a","l","i","z","a","t","i","o","n">>,
    <<"b","u","s","i","n","e","s","s"," ","i","n","t","e","l","l","i","g","e","n","c","e">>,
    <<"e","t","l">>, <<"d","a","t","a"," ","p","i","p","e","l","i","n","e">>,
    <<"U+BA38","U+C2E0","U+B7EC","U+B2DD">>, <<"U+B525","U+B7EC","U+B2DD">>,
    <<"U+C778","U+ACF5","U+C9C0","U+B2A5">>,
    <<"U+B370","U+C774","U+D130","U+C0AC","U+C774","U+C5B8","U+C2A4">>,
    <<"U+B370","U+C774","U+D130","U+BD84","U+C11D">>, <<"L","L","M">>,
    <<"U+B300","U+D615","U+C5B8","U+C5B4","U+BAA8","U+B378">>,
    <<"U+C0DD","U+C131","U+D615","A","I">>, <<"U+C790","U+C5F0","U+C5B4","U+CC98","U+B9AC">>,
    <<"U+CEF4","U+D4E8","U+D130","U+BE44","U+C804">>, <<"U+AC15","U+D654","U+D559","U+C2B5">>,
    <<"U+C9C0","U+B3C4","U+D559","U+C2B5">>, <<"U+BE44","U+C9C0","U+B3C4","U+D559","U+C2B5">>,
    <<"U+BD84","U+B958">>, <<"U+D68C","U+ADC0">>,
    <<"U+D074","U+B7EC","U+C2A4","U+D130","U+B9C1">>, <<"U+D2B9","U+C131","U+ACF5","U+D559">>,
    <<"U+BAA8","U+B378","U+D6C8","U+B828">>,
    <<"U+D558","U+C774","U+D37C","U+D30C","U+B77C","U+BBF8","U+D130">>,
    <<"U+CD5C","U+C801","U+D654">>, <<"U+C2DC","U+ACC4","U+C5F4">>,
    <<"U+BE45","U+B370","U+C774","U+D130">>,
    <<"U+B370","U+C774","U+D130","U+B9C8","U+C774","U+B2DD">>,
    <<"U+C608","U+CE21","U+BD84","U+C11D">>,
    <<"U+B370","U+C774","U+D130","U+C2DC","U+AC01","U+D654">>,
    <<"U+BE44","U+C988","U+B2C8","U+C2A4","U+C778","U+D154","U+B9AC","U+C804","U+C2A4">>
  >>

(* Config.EXCLUDED_TECH_KEYWORDS. *)
EXCLUDED_TECH_KEYWORDS ==
  <<
    <<"w","e","b"," ","d","e","v","e","l","o","p","m","e","n","t">>,
    <<"f","r","o","n","t","e","n","d">>, <<"b","a","c","k","e","n","d">>,
    <<"j","a","v","a","s","c","r","i","p","t">>, <<"r","e","a","c","t">>, <<"v","u","e">>,
    <<"a","n","g","u","l","a","r">>, <<"c","s","s">>, <<"h","t","m","l">>,
    <<"m","o","b","i","l","e"," ","a","p","p">>, <<"i","o","s">>,
    <<"a","n","d","r","o","i","d">>, <<"s","w","i","f","t">>, <<"k","o","t","l","i","n">>,
    <<"d","a","t","a","b","a","s","e"," ","d","e","s","i","g","n">>,
    <<"s","q","l"," ","o","p","t","i","m","i","z","a","t","i","o","n">>,
    <<"d","e","v","o","p","s">>, <<"k","u","b","e","r","n","e","t","e","s">>,
    <<"d","o","c","k","e","r">>, <<"m","i","c","r","o","s","e","r","v","i","c","e","s">>,
    <<"a","p","i"," ","d","e","s","i","g","n">>,
    <<"s","y","s","t","e","m"," ","d","e","s","i","g","n">>,
    <<"n","e","t","w","o","r","k","i","n","g">>, <<"U+C6F9","U+AC1C","U+BC1C">>,
    <<"U+D504","U+B860","U+D2B8","U+C5D4","U+B4DC">>, <<"U+BC31","U+C5D4","U+B4DC">>,
    <<"U+BAA8","U+BC14","U+C77C","U+C571">>,
    <<"U+B370","U+C774","U+D130","U+BCA0","U+C774","U+C2A4","U+C124","U+ACC4">>,
    <<"U+C2DC","U+C2A4","U+D15C","U+C124","U+ACC4">>, <<"U+B124","U+D2B8","U+C6CC","U+D0B9">>,
    <<"U+CFE0","U+BC84","U+B124","U+D2F0","U+C2A4">>, <<"U+B3C4","U+CEE4">>,
    <<"U+B9C8","U+C774","U+D06C","U+B85C","U+C11C","U+BE44","U+C2A4">>
  >>

(* The core_keywords literal of _has_ds_ml_keywords. *)
core_keywords ==
  <<
    <<"m","a","c","h","i","n","e"," ","l","e","a","r","n","i","n","g">>,
    <<"d","e","e","p"," ","l","e","a","r","n","i","n","g">>,
    <<"a","r","t","i","f","i","c","i","a","l"," ","i","n","t","e","l","l","i","g","e","n","c","e">>,
    <<"n","e","u","r","a","l"," ","n","e","t","w","o","r","k">>,
    <<"d","a","t","a"," ","s","c","i","e","n","c","e">>, <<"l","l","m">>,
    <<"l","a","r","g","e"," ","l","a","n","g","u","a","g","e"," ","m","o","d","e","l">>,
    <<"g","p","t">>, <<"t","r","a","n","s","f","o","r","m","e","r">>,
    <<"c","o","m","p","u","t","e","r"," ","v","i","s","i","o","n">>,
    <<"n","a","t","u","r","a","l"," ","l","a","n","g","u","a","g","e"," ","p","r","o","c","e","s","s","i","n","g">>,
    <<"n","l","p">>, <<"U+BA38","U+C2E0","U+B7EC","U+B2DD">>, <<"U+B525","U+B7EC","U+B2DD">>,
    <<"U+C778","U+ACF5","U+C9C0","U+B2A5">>, <<"l","l","m">>,
    <<"U+B300","U+D615","U+C5B8","U+C5B4","U+BAA8","U+B378">>,
    <<"U+C0DD","U+C131","U+D615","a","i">>, <<"U+C790","U+C5F0","U+C5B4","U+CC98","U+B9AC">>,
    <<"U+CEF4","U+D4E8","U+D130","U+BE44","U+C804">>,
    <<"U+B370","U+C774","U+D130","U+C0AC","U+C774","U+C5B8","U+C2A4">>
  >>


-----------------------------------------------------------------------------
(* ContentFilter.calculate_score (content_filter.py:32-66) *)

(* self.config.SOURCE_BASE_SCORES.get(source_id, self.config.BASE_SCORE) *)
base_score(sid) ==
  IF \E i \in 1..Len(SOURCE_BASE_SCORES) : SOURCE_BASE_SCORES[i].source_id = sid
  THEN LET i == CHOOSE k \in 1..Len(SOURCE_BASE_SCORES) :
                  SOURCE_BASE_SCORES[k].source_id = sid
       IN SOURCE_BASE_SCORES[i].base
  ELSE BASE_SCORE

(* full_text = (title + " " + content).lower() *)
full_text_of(t, c) == Lower(t \o <<" ">> \o c)

(* The loop of lines 53-55 if only the largest bonus counted. *)
RECURSIVE largest_bonus_only(_, _)
largest_bonus_only(full_text, n) ==
  IF n = 0 THEN 0
  ELSE Max(largest_bonus_only(full_text, n - 1),
           IF Contains(full_text, Lower(PRIORITY_KEYWORDS[n].keyword))
           THEN PRIORITY_KEYWORDS[n].bonus ELSE 0)

(* The loop over PRIORITY_KEYWORDS: the bonuses of the keywords found. *)
RECURSIVE keyword_bonus(_, _)
keyword_bonus(full_text, n) ==
  IF n = 0 THEN 0
  ELSE keyword_bonus(full_text, n - 1)
       + (IF Contains(full_text, Lower(PRIORITY_KEYWORDS[n].keyword))
          THEN PRIORITY_KEYWORDS[n].bonus ELSE 0)

(* The loop over EXCLUDE_PATTERNS: 30 points for each pattern found. *)
RECURSIVE pattern_penalty(_, _)
pattern_penalty(full_text, n) ==
  IF n = 0 THEN 0
  ELSE pattern_penalty(full_text, n - 1)
       + (IF Contains(full_text, Lower(EXCLUDE_PATTERNS[n])) THEN 30 ELSE 0)

(* The value of `score` at line 64, before the clamp of line 66. *)
accumulated_score(t, c, sid) ==
  LET full_text == full_text_of(t, c)
  IN base_score(sid) + keyword_bonus(full_text, Len(PRIORITY_KEYWORDS))
       - pattern_penalty(full_text, Len(EXCLUDE_PATTERNS))

calculate_score_unclamped(t, c, sid) == accumulated_score(t, c, sid)

(* return max(0, score) *)
calculate_score(t, c, sid) == Max(0, accumulated_score(t, c, sid))

-----------------------------------------------------------------------------
(* ContentFilter._is_duplicate (content_filter.py:68-95) *)

(* None, the value of d.get(key) for a key the dict does not hold: a
   one-element sequence whose element is no character, so that it differs
   from every str. *)
None == <<"None">>

(* The ASCII characters that are neither word characters nor white space: the
   re.sub of lines 90-91 deletes them (a Hangul syllable is a word character).
   "U+0060" is the grave accent, which a TLA+ string cannot hold. *)
Punctuation ==
  {"!", "\"", "#", "$", "%", "&", "'", "(", ")", "*", "+", ",", "-", ".", "/", ":",
   ";", "<", "=", ">", "?", "@", "[", "\\", "]", "^", "U+0060", "{", "|", "}", "~"}

(* re.sub(pattern, '', t), the pattern matching a character of Punctuation *)
RECURSIVE strip_punctuation(_)
strip_punctuation(t) ==
  IF t = <<>> THEN <<>>
  ELSE (IF Head(t) \in Punctuation THEN <<>> ELSE <<Head(t)>>)
       \o strip_punctuation(Tail(t))

(* The length of the longest common run of a[i..ahi] and b[j..bhi] that starts
   at a[i] and b[j]. *)
RECURSIVE common_run(_, _, _, _, _, _)
common_run(a, b, i, ahi, j, bhi) ==
  IF i > ahi \/ j > bhi \/ a[i] # b[j] THEN 0
  ELSE 1 + common_run(a, b, i + 1, ahi, j + 1, bhi)

(* SequenceMatcher.find_longest_match(alo, ahi, blo, bhi) without junk (titles
   are shorter than the 200 characters at which autojunk starts): the longest
   block, of those the one that starts earliest in a, of those the one that
   starts earliest in b.  Positions are 1-based and the bounds inclusive. *)
Largest(sizes) == CHOOSE n \in sizes : \A n2 \in sizes : n2 <= n

Earliest(blocks) ==
  CHOOSE p \in blocks : \A q \in blocks : p[1] < q[1] \/ (p[1] = q[1] /\ p[2] <= q[2])

Block(m, k) == [i |-> m[1], j |-> m[2], size |-> k]

(* Of the runs that start at a pair of `starts`, the earliest of size k. *)
block_of_size(a, b, ahi, bhi, starts, k) ==
  Block(Earliest({p \in starts : common_run(a, b, p[1], ahi, p[2], bhi) = k}), k)

(* `starts` holds the pairs of positions with equal characters. *)
longest_of(a, b, alo, ahi, blo, bhi, starts) ==
  IF starts = {} THEN [i |-> alo, j |-> blo, size |-> 0]
  ELSE block_of_size(a, b, ahi, bhi, starts,
         Largest({common_run(a, b, p[1], ahi, p[2], bhi) : p \in starts}))

find_longest_match(a, b, alo, ahi, blo, bhi) ==
  longest_of(a, b, alo, ahi, blo, bhi,
    {p \in (alo..ahi) \X (blo..bhi) : a[p[1]] = b[p[2]]})

(* The sum of the sizes of SequenceMatcher.get_matching_blocks(): the longest
   block m, then the blocks to its left and to its right. *)
RECURSIVE matching_size(_, _, _, _, _, _)
blocks_beside(a, b, alo, ahi, blo, bhi, m) ==
  IF m.size = 0 THEN 0
  ELSE m.size
       + matching_size(a, b, alo, m.i - 1, blo, m.j - 1)
       + matching_size(a, b, m.i + m.size, ahi, m.j + m.size, bhi)

matching_size(a, b, alo, ahi, blo, bhi) ==
  IF alo > ahi \/ blo > bhi THEN 0
  ELSE blocks_beside(a, b, alo, ahi, blo, bhi, find_longest_match(a, b, alo, ahi, blo, bhi))

(* SequenceMatcher(None, a, b).ratio() >= 0.8, with ratio() = 2.0 * M / T, or
   1.0 when T = 0: M / T >= 2 / 5 in integers. *)
ratio_at_least_threshold(a, b) ==
  LET T == Len(a) + Len(b)
      M == matching_size(a, b, 1, Len(a), 1, Len(b))
  IN T = 0 \/ 5 * 2 * M >= 4 * T

(* title.lower() with the punctuation removed *)
normalized_title(article) == strip_punctuation(Lower(Get(article, "title", <<>>)))

_is_duplicate(article1, article2) ==
  \/ Get(article1, "url", None) = Get(article2, "url", None)
  \/ ratio_at_least_threshold(normalized_title(article1), normalized_title(article2))

-----------------------------------------------------------------------------
(* ContentFilter.remove_duplicates (content_filter.py:201-232) *)

(* article.get('score', 0) *)
score_of(article) == Get(article, "score", 0)

(* list.remove(x): the list without its first element equal to x *)
RECURSIVE list_remove(_, _)
list_remove(list, x) ==
  IF list = <<>> THEN <<>>
  ELSE IF Head(list) = x THEN Tail(list)
  ELSE <<Head(list)>> \o list_remove(Tail(list), x)

candidate_scores_lower(article, existing_article) ==
  score_of(article) < score_of(existing_article)

(* line 222: the candidate replaces the accepted article it duplicates *)
candidate_wins(article, existing_article) ==
  score_of(article) > score_of(existing_article)

(* lines 222-229: the candidate and the accepted article it duplicates, the
   one with the lower score being dropped (the accepted one on a tie is kept). *)
resolve_duplicate(acc, article, existing_article) ==
  IF candidate_wins(article, existing_article)
  THEN [unique_articles |->
          Append(list_remove(acc.unique_articles, existing_article), article),
        dropped |-> Append(acc.dropped,
          [article |-> existing_article, kept |-> article, how |-> "evicted"])]
  ELSE [unique_articles |-> acc.unique_articles,
        dropped |-> Append(acc.dropped,
          [article |-> article, kept |-> existing_article, how |-> "rejected"])]

(* The smallest element of a non-empty set of positions. *)
First(positions) == CHOOSE i \in positions : \A k \in positions : i <= k

(* lines 216-232 for `article`, `hits` being the positions of the accepted
   articles it duplicates: the first of them decides (the inner loop breaks
   there); without a hit the article is accepted. *)
accept_or_resolve(acc, article, hits) ==
  IF hits = {}
  THEN [acc EXCEPT !.unique_articles = Append(@, article)]
  ELSE resolve_duplicate(acc, article, acc.unique_articles[First(hits)])

(* One pass of the outer loop for `article`.  `acc` holds unique_articles and
   the log of the articles dropped so far, each with the article kept. *)
dedup_step(acc, article) ==
  accept_or_resolve(acc, article,
    {i \in 1..Len(acc.unique_articles) : _is_duplicate(article, acc.unique_articles[i])})

RECURSIVE dedup_loop(_, _)
dedup_loop(list, n) ==
  IF n = 0 THEN [unique_articles |-> <<>>, dropped |-> <<>>]
  ELSE dedup_step(dedup_loop(list, n - 1), list[n])

(* remove_duplicates(articles), with the log of what it dropped *)
remove_duplicates_logged(list) == dedup_loop(list, Len(list))

remove_duplicates(list) == remove_duplicates_logged(list).unique_articles

-----------------------------------------------------------------------------
(* datetime (standard library), at the resolution of one hour *)

IsLeapYear(y) == (y % 4 = 0 /\ y % 100 # 0) \/ y % 400 = 0

(* The days of the year before the first day of month m. *)
DaysBeforeMonth(y, m) ==
  LET common == <<0, 31, 59, 90, 120, 151, 181, 212, 243, 273, 304, 334>>
  IN common[m] + (IF m > 2 /\ IsLeapYear(y) THEN 1 ELSE 0)

(* date.toordinal(): the days from 0001-01-01, which is day 1. *)
ToOrdinal(y, m, d) ==
  LET p == y - 1
  IN 365 * p + (p \div 4) - (p \div 100) + (p \div 400) + DaysBeforeMonth(y, m) + d

(* A datetime: its calendar fields as written, and its utcoffset in hours, or
   tzinfo = "naive" and offset 0 when it has none. *)
DateTime(y, m, d, h, tz, off) ==
  [year |-> y, month |-> m, day |-> d, hour |-> h, tzinfo |-> tz, offset |-> off]

(* The instant of an aware datetime, in hours. *)
UtcHours(dt) == ToOrdinal(dt.year, dt.month, dt.day) * 24 + dt.hour - dt.offset

(* (a - b).days for aware datetimes: timedelta normalizes to whole days,
   rounding down. *)
DeltaDays(a, b) == (UtcHours(a) - UtcHours(b)) \div 24

(* The values of article['published'].  A str is one of: the empty string, a
   text that is no ISO date, 'YYYY-MM-DD', or 'YYYY-MM-DDTHH:00:00' followed by
   suffix "", "Z" or an offset "+HH:00" / "-HH:00".  Other types: an int, None,
   bytes. *)
EmptyStr == [type |-> "str", form |-> "empty"]

TextStr == [type |-> "str", form |-> "text"]

IsoDate(y, m, d) == [type |-> "str", form |-> "date", year |-> y, month |-> m, day |-> d]

IsoDateTime(y, m, d, h, suffix) ==
  [type |-> "str", form |-> "datetime", year |-> y, month |-> m, day |-> d,
   hour |-> h, suffix |-> suffix]

IntValue(n) == [type |-> "int", value |-> n]

NoneValue == [type |-> "NoneType"]

BytesValue == [type |-> "bytes", form |-> "text"]

(* The offsets the model's timestamps carry, in hours. *)
OffsetHours(suffix) ==
  CASE suffix = "+00:00" -> 0
    [] suffix = "+09:00" -> 9
    [] suffix = "-05:00" -> -5

(* bool(value) *)
Truthy(v) ==
  CASE v.type = "str" -> v.form # "empty"
    [] v.type = "int" -> v.value # 0
    [] v.type = "NoneType" -> FALSE
    [] v.type = "bytes" -> TRUE

(* s.replace('Z', '+00:00') on a well-formed timestamp *)
ReplaceZ(s) ==
  IF s.form = "datetime" /\ s.suffix = "Z" THEN [s EXCEPT !.suffix = "+00:00"] ELSE s

(* datetime.fromisoformat(s): [ok |-> FALSE] stands for ValueError.  A "Z"
   suffix does not reach it: every string with a "T" goes through ReplaceZ. *)
fromisoformat(s) ==
  CASE s.form = "date" ->
         [ok |-> TRUE, value |-> DateTime(s.year, s.month, s.day, 0, "naive", 0)]
    [] s.form = "datetime" /\ s.suffix = "" ->
         [ok |-> TRUE, value |-> DateTime(s.year, s.month, s.day, s.hour, "naive", 0)]
    [] s.form = "datetime" /\ s.suffix \notin {"", "Z"} ->
         [ok |-> TRUE,
          value |-> DateTime(s.year, s.month, s.day, s.hour, "aware", OffsetHours(s.suffix))]
    [] OTHER -> [ok |-> FALSE]

-----------------------------------------------------------------------------
(* ContentFilter._is_recent_article (content_filter.py:97-145) *)

Returns(v) == [raised |-> FALSE, value |-> v]

Raises(exc) == [raised |-> TRUE, exception |-> exc]

(* lines 114-119: the three parsing branches *)
parse_published(pub_date_str) ==
  IF pub_date_str.form = "datetime" /\ pub_date_str.suffix = "+00:00"
  THEN fromisoformat(pub_date_str)
  ELSE IF pub_date_str.form = "datetime"
  THEN fromisoformat(ReplaceZ(pub_date_str))
  ELSE fromisoformat(pub_date_str)

(* lines 122-123: a datetime without tzinfo is taken as UTC *)
assume_utc(pub_date) ==
  IF pub_date.tzinfo = "naive" THEN [pub_date EXCEPT !.tzinfo = "aware"] ELSE pub_date

(* lines 131-141, without the age check of lines 136-138 *)
recent_by_year_only(pub_date, t) == ~(pub_date.year < MIN_PUBLISH_YEAR)

(* lines 127-141: the year check, then the age check *)
recent_by_year_and_age(pub_date, t) ==
  LET article_age_days == DeltaDays(t, pub_date)
      max_age == MAX_ARTICLE_AGE_DAYS
  IN IF pub_date.year < MIN_PUBLISH_YEAR THEN FALSE
     ELSE IF article_age_days > max_age THEN FALSE
     ELSE TRUE

(* The except clause of line 143 names ValueError and TypeError: str.endswith
   on bytes raises TypeError and fromisoformat raises ValueError, both give
   False; an int has no endswith, and the AttributeError leaves the method. *)
_is_recent_article(article, t) ==
  LET pub_date_str == Get(article, "published", EmptyStr)
  IN IF ~Truthy(pub_date_str) THEN Returns(FALSE)
     ELSE IF pub_date_str.type = "bytes" THEN Returns(FALSE)
     ELSE IF pub_date_str.type # "str" THEN Raises("AttributeError")
     ELSE LET parsed == parse_published(pub_date_str)
          IN IF ~parsed.ok THEN Returns(FALSE)
             ELSE Returns(recent_by_year_and_age(assume_utc(parsed.value), t))

-----------------------------------------------------------------------------
(* ContentFilter._has_ds_ml_keywords (content_filter.py:147-199) *)

(* [keyword.lower() for keyword in keywords]: the keyword lists are class
   attributes and literals, so their lower case is the same at every call. *)
RECURSIVE lower_all(_)
lower_all(keywords) ==
  IF keywords = <<>> THEN <<>> ELSE <<Lower(Head(keywords))>> \o lower_all(Tail(keywords))

excluded_tech_keywords_lower == lower_all(EXCLUDED_TECH_KEYWORDS)

core_keywords_lower == lower_all(core_keywords)

ds_keywords_lower == lower_all(DS_KEYWORDS)

(* any(keyword.lower() in full_text for keyword in keywords), given the
   keywords in lower case *)
AnyKeywordIn(keywords_lower, full_text) ==
  \E i \in 1..Len(keywords_lower) : Contains(full_text, keywords_lower[i])

(* lines 159-199 without the exclusion step of lines 163-169 *)
has_keywords_ignoring_exclusion(article, strict_mode) ==
  LET full_text == Lower(Get(article, "title", <<>>)) \o <<" ">>
                     \o Lower(Get(article, "content", <<>>))
  IN IF strict_mode /\ ~AnyKeywordIn(core_keywords_lower, full_text) THEN FALSE
     ELSE AnyKeywordIn(ds_keywords_lower, full_text)

_has_ds_ml_keywords(article, strict_mode) ==
  LET full_text == Lower(Get(article, "title", <<>>)) \o <<" ">>
                     \o Lower(Get(article, "content", <<>>))
  IN IF strict_mode /\ AnyKeywordIn(excluded_tech_keywords_lower, full_text) THEN FALSE
     ELSE IF strict_mode /\ ~AnyKeywordIn(core_keywords_lower, full_text) THEN FALSE
     ELSE AnyKeywordIn(ds_keywords_lower, full_text)

-----------------------------------------------------------------------------
(* ContentFilter.filter_all_articles_by_keywords (content_filter.py:254-283) *)

(* The loop over the first n articles: an exception of _is_recent_article
   leaves the loop and the method. *)
RECURSIVE filter_loop(_, _, _)
filter_loop(list, n, t) ==
  IF n = 0 THEN [raised |-> FALSE, filtered |-> <<>>]
  ELSE LET before == filter_loop(list, n - 1, t)
       IN IF before.raised THEN before
          ELSE LET recent == _is_recent_article(list[n], t)
               IN IF recent.raised
                  THEN [raised |-> TRUE, exception |-> recent.exception,
                        at |-> n, filtered |-> before.filtered]
                  ELSE IF ~recent.value THEN before
                  ELSE IF _has_ds_ml_keywords(list[n], TRUE)
                  THEN [before EXCEPT !.filtered = Append(@, list[n])]
                  ELSE before

filter_all_articles_by_keywords(list, t) == filter_loop(list, Len(list), t)

-----------------------------------------------------------------------------
(* ContentFilter.filter_by_score_threshold (content_filter.py:234-252) *)

passes_any_score(article) == TRUE

(* lines 246-249 if a low score were raised to the threshold instead of the
   article being dropped *)
RECURSIVE raise_to_threshold(_)
raise_to_threshold(list) ==
  IF list = <<>> THEN <<>>
  ELSE <<[s \in {"score"} |-> Max(MIN_SCORE_THRESHOLD, Get(Head(list), "score", 0))]
           @@ Head(list)>> \o raise_to_threshold(Tail(list))

(* line 248: article.get('score', 0) >= threshold *)
passes_threshold(article) == score_of(article) >= MIN_SCORE_THRESHOLD

(* [article for article in articles if ...] *)
filter_by_score_threshold(list) == SelectSeq(list, passes_threshold)

-----------------------------------------------------------------------------
(* ContentFilter.get_top_articles (content_filter.py:298-340) *)

(* The sorted list with x put behind every element whose score is at least
   x's: list.sort(key=score, reverse=True) is stable. *)
RECURSIVE insert_by_score(_, _)
insert_by_score(sorted, x) ==
  IF sorted = <<>> THEN <<x>>
  ELSE IF score_of(Head(sorted)) >= score_of(x)
  THEN <<Head(sorted)>> \o insert_by_score(Tail(sorted), x)
  ELSE <<x>> \o sorted

(* list.sort(key=lambda x: x.get('score', 0), reverse=True) *)
RECURSIVE sort_by_score(_)
sort_by_score(list) ==
  IF list = <<>> THEN <<>>
  ELSE insert_by_score(sort_by_score(SubSeq(list, 1, Len(list) - 1)), list[Len(list)])

(* list[:n] for n >= 0 *)
Take(list, n) == SubSeq(list, 1, Min(n, Len(list)))

(* lines 327-328: at most FINAL_ARTICLE_COUNT articles of the sorted list *)
final_selection(ordered) == Take(ordered, Min(Len(ordered), FINAL_ARTICLE_COUNT))

(* lines 317-328, `topical` being what filter_all_articles_by_keywords gave:
   the score threshold, the deduplication, the sort and the selection. *)
top_of(topical) ==
  IF topical.raised THEN Raises(topical.exception)
  ELSE Returns(final_selection(sort_by_score(remove_duplicates(
                 filter_by_score_threshold(topical.filtered)))))

(* lines 309-328 if remove_duplicates ran first, on the list as given, and
   not after the threshold *)
get_top_articles_dedup_first(list, t) ==
  LET topical == filter_all_articles_by_keywords(remove_duplicates(list), t)
  IN IF list = <<>> THEN Returns(<<>>)
     ELSE IF topical.raised THEN Raises(topical.exception)
     ELSE Returns(final_selection(sort_by_score(filter_by_score_threshold(topical.filtered))))

get_top_articles(list, t) ==
  IF list = <<>> THEN Returns(<<>>)
  ELSE top_of(filter_all_articles_by_keywords(list, t))

-----------------------------------------------------------------------------
(* DSNewsPipeline.step2_filter_articles (pipeline.py:127-184) *)

(* Config.NEWS_MEDIA_RATIO, PRACTICAL_BLOG_RATIO, COMPANY_BLOG_RATIO (0.50,
   0.30, 0.20), in hundredths. *)
NEWS_MEDIA_RATIO == 50

PRACTICAL_BLOG_RATIO == 30

COMPANY_BLOG_RATIO == 20

(* The prefix tuples of lines 141-143. *)
news_prefixes ==
  << <<"t","e","c","h","c","r","u","n","c","h">>, <<"v","e","n","t","u","r","e","b","e","a","t">>, <<"m","i","t","_","t","e","c","h">>, <<"a","i","_","t","i","m","e","s">>, <<"z","d","n","e","t">>, <<"t","e","c","h","4","2">> >>

blog_prefixes ==
  << <<"t","o","w","a","r","d","s","_","d","a","t","a">>, <<"a","n","a","l","y","t","i","c","s","_","v","i","d","h","y","a">>, <<"k","d","n","u","g","g","e","t","s">>, <<"n","e","p","t","u","n","e">> >>

company_prefixes ==
  << <<"g","o","o","g","l","e","_","a","i">>, <<"o","p","e","n","a","i">>, <<"n","a","v","e","r","_","d","2">>, <<"k","a","k","a","o","_","t","e","c","h">> >>

(* a.get('source_id', '').startswith(prefixes), for a source_id that is a str *)
in_category(article, prefixes) ==
  \E i \in 1..Len(prefixes) : StartsWith(Get(article, "source_id", <<>>), prefixes[i])

is_news(article) == in_category(article, news_prefixes)

is_blog(article) == in_category(article, blog_prefixes)

is_company(article) == in_category(article, company_prefixes)

(* int(target_total * ratio): the product of the count, at most 10, and the
   ratio, rounded towards 0. *)
ratio_share(target_total, ratio) == (target_total * ratio) \div 100

(* lines 148-159: the per-category target counts *)
target_counts(list) ==
  LET target_total == Min(10, Len(list))
  IN [news    |-> Max(3, Min(5, ratio_share(target_total, NEWS_MEDIA_RATIO))),
      blog    |-> Max(2, Min(3, ratio_share(target_total, PRACTICAL_BLOG_RATIO))),
      company |-> Max(1, Min(2, ratio_share(target_total, COMPANY_BLOG_RATIO)))]

(* lines 150-163 without the sort of line 166 *)
select_by_quota_unsorted(targets, news, blog, company) ==
  IF news.raised THEN Raises(news.exception)
  ELSE IF blog.raised THEN Raises(blog.exception)
  ELSE IF company.raised THEN Raises(company.exception)
  ELSE Returns(Take(news.value, targets.news) \o Take(blog.value, targets.blog)
                 \o Take(company.value, targets.company))

(* lines 150-166: the per-category selections cut to their targets, joined
   and sorted; an exception of get_top_articles leaves the try block. *)
select_by_quota(targets, news, blog, company) ==
  IF news.raised THEN Raises(news.exception)
  ELSE IF blog.raised THEN Raises(blog.exception)
  ELSE IF company.raised THEN Raises(company.exception)
  ELSE Returns(sort_by_score(Take(news.value, targets.news)
                               \o Take(blog.value, targets.blog)
                               \o Take(company.value, targets.company)))

(* The try block of lines 139-174.  A source_id that is None has no
   startswith: line 141 raises AttributeError. *)
step2_try(list, t) ==
  IF \E i \in 1..Len(list) : Get(list[i], "source_id", <<>>) = None
  THEN Raises("AttributeError")
  ELSE select_by_quota(target_counts(list),
                       get_top_articles(SelectSeq(list, is_news), t),
                       get_top_articles(SelectSeq(list, is_blog), t),
                       get_top_articles(SelectSeq(list, is_company), t))

(* lines 176-181: the except branch, `failed` being pipeline_stats with the
   error recorded and `fallback` what get_top_articles(articles) gave; an
   exception of that call leaves the method. *)
step2_except(failed, fallback) ==
  IF fallback.raised
  THEN [path |-> "fallback", raised |-> TRUE, exception |-> fallback.exception,
        stats |-> failed]
  ELSE [path |-> "fallback", raised |-> FALSE,
        filtered_articles |-> fallback.value, stats |-> failed]

(* `tried` is the outcome of the try block. *)
step2_outcome(list, t, stats, tried) ==
  IF ~tried.raised
  THEN [path |-> "normal", raised |-> FALSE, filtered_articles |-> tried.value,
        stats |-> [stats EXCEPT !.filtered_articles = Len(tried.value)]]
  ELSE step2_except([stats EXCEPT !.errors = Append(@, "content filtering failed")],
                    get_top_articles(list, t))

(* step2_filter_articles(articles): what it returns or raises, the path taken
   and pipeline_stats afterwards. *)
step2_filter_articles(list, t, stats) == step2_outcome(list, t, stats, step2_try(list, t))


-----------------------------------------------------------------------------
(* The stages step2_filter_articles runs, in the order in which it runs them *)

(* The stages of get_top_articles (content_filter.py:309-328) on a list: none
   for an empty list (line 309); the recency and keyword loop only, when it
   raises; else all five. *)
stages_entered(list, topical) ==
  IF list = <<>> THEN <<>>
  ELSE IF topical.raised THEN <<"recency_and_keywords">>
  ELSE <<"recency_and_keywords", "score_threshold", "remove_duplicates", "sort", "cut">>

(* One call of get_top_articles, made for `who`, on `list`. *)
top_call_of(who, list, topical) ==
  [call |-> who, input |-> list, stages |-> stages_entered(list, topical),
   raised |-> list # <<>> /\ topical.raised]

top_call(who, list, t) == top_call_of(who, list, filter_all_articles_by_keywords(list, t))

(* The calls of lines 152, 156 and 160, up to the first that raises. *)
category_calls(news, blog, company) ==
  IF news.raised THEN <<news>>
  ELSE IF blog.raised THEN <<news, blog>>
  ELSE <<news, blog, company>>

(* The try block: nothing is called when line 141 raises; else the category
   calls and, when none raised, the slices, the join and the sort. *)
try_stages(list, calls) ==
  IF \E i \in 1..Len(list) : Get(list[i], "source_id", <<>>) = None THEN <<>>
  ELSE IF calls[Len(calls)].raised THEN calls
  ELSE calls \o <<[call |-> "quota_and_sort", input |-> list,
                    stages |-> <<"quota", "sort">>, raised |-> FALSE]>>

(* The stages of the whole method: those of the try block and, when it
   raised, those of get_top_articles(articles) at line 181. *)
stages_with_fallback(list, t, tried, done) ==
  IF ~tried.raised THEN done
  ELSE Append(done, top_call("fallback", list, t))

step2_stages(list, t) ==
  stages_with_fallback(list, t, step2_try(list, t),
    try_stages(list, category_calls(top_call("news", SelectSeq(list, is_news), t),
                                    top_call("blog", SelectSeq(list, is_blog), t),
                                    top_call("company", SelectSeq(list, is_company), t))))
-----------------------------------------------------------------------------
(* DSNewsPipeline steps 1, 3, 4, 5 (pipeline.py:74-125, 186-321).  Of
   pipeline_stats the model keeps the counters and the errors; start_time,
   end_time and stage_times hold clock readings only. *)

(* step1_collect_articles: the lists of the three collectors, joined in the
   order of the calls.  Each collect() catches the exceptions of every source
   and of every entry (news_media_collector.py:287-374), so it returns. *)
step1_collect_articles(news_articles, blog_articles, company_articles, stats) ==
  LET all_articles == news_articles \o blog_articles \o company_articles
  IN [all_articles |-> all_articles,
      stats |-> [stats EXCEPT !.original_articles = Len(all_articles)]]

(* article.get('needs_translation', False) *)
needs_translation(article) == Get(article, "needs_translation", FALSE)

(* A text the translation service returns: the model does not compute it. *)
KoreanText == <<"U+BC88", "U+C5ED">>

(* Translator.translate_text(text)['translated_text'] (translator.py:267-317):
   the service's text, or the text itself when both services fail. *)
translate_text(text, service_ok) == IF service_ok THEN KoreanText ELSE text

(* Translator.translate_article (translator.py:319-341): a copy with title_ko
   and content_ko added. *)
translate_article(article, service_ok) ==
  LET with_title ==
        IF "title" \in DOMAIN article
        THEN [title_ko |-> translate_text(article.title, service_ok)] @@ article
        ELSE article
  IN IF "content" \in DOMAIN article
     THEN [content_ko |-> translate_text(article.content, service_ok)] @@ with_title
     ELSE with_title

(* step3_translate_articles: translated_dict is keyed by id, a later article
   of the batch replacing an earlier one with the same id; every article whose
   id is a key is replaced by the dict's entry. *)
step3_translate_articles(list, service_ok, stats) ==
  LET to_translate == {j \in 1..Len(list) : needs_translation(list[j])}
      translated_dict(id) ==
        LET js == {j \in to_translate : list[j].id = id}
        IN translate_article(list[CHOOSE j \in js : \A k \in js : k <= j], service_ok)
      in_dict(id) == \E j \in to_translate : list[j].id = id
  IN [result_articles |->
        [i \in 1..Len(list) |->
           IF in_dict(list[i].id) THEN translated_dict(list[i].id) ELSE list[i]],
      stats |-> [stats EXCEPT !.translated_articles = Cardinality(to_translate)]]

(* A text the summarization service returns: the model does not compute it. *)
SummaryText == <<"U+C694", "U+C57D">>

(* Summarizer.summarize_article (summarizer.py:274-320): a copy with the
   summary fields added; when the service fails the summary is a fallback
   and summarization_success is False. *)
summarize_article(article, service_ok) ==
  [summary |-> SummaryText, summarization_success |-> service_ok] @@ article

(* step4_summarize_articles: summarize_articles_batch returns one article for
   each article of the batch (summarizer.py:322-365). *)
step4_summarize_articles(list, service_ok, stats) ==
  LET summarized_articles ==
        [i \in 1..Len(list) |-> summarize_article(list[i], service_ok)]
  IN [summarized_articles |-> summarized_articles,
      stats |-> [stats EXCEPT !.summarized_articles = Len(summarized_articles)]]

(* datetime.now(timezone.utc).date().isoformat() *)
Today(t) == [year |-> t.year, month |-> t.month, day |-> t.day]

(* A file that json.dump has written completely. *)
WrittenFile(output_data) == [exists |-> TRUE, complete |-> TRUE, data |-> output_data]

(* A file that open(..., 'w') has truncated and json.dump has not finished. *)
PartialFile == [exists |-> TRUE, complete |-> FALSE]

(* The places of step5_save_articles at which the file system can fail: line
   287 (makedirs), 298 (open of the main file), 299 (its dump), 303 (open of
   the history file), 304 (its dump). *)
SaveOutcomes == {"saved", "makedirs", "open_main", "dump_main", "open_history", "dump_history"}

(* step5_save_articles: the two files after the call, its return value and
   pipeline_stats. *)
step5_save_articles(list, t, outcome, files, stats) ==
  LET output_data == [date |-> Today(t), articles |-> list]
      failed      == [stats EXCEPT !.errors = Append(@, "json save failed")]
  IN CASE outcome = "saved" ->
            [success |-> TRUE,
             store |-> [articles_file |-> WrittenFile(output_data),
                        history_file  |-> WrittenFile(output_data)],
             stats |-> [stats EXCEPT !.final_articles = Len(list)]]
       [] outcome \in {"makedirs", "open_main"} ->
            [success |-> FALSE, store |-> files, stats |-> failed]
       [] outcome = "dump_main" ->
            [success |-> FALSE,
             store |-> [files EXCEPT !.articles_file = PartialFile],
             stats |-> failed]
       [] outcome = "open_history" ->
            [success |-> FALSE,
             store |-> [files EXCEPT !.articles_file = WrittenFile(output_data)],
             stats |-> failed]
       [] outcome = "dump_history" ->
            [success |-> FALSE,
             store |-> [articles_file |-> WrittenFile(output_data),
                        history_file  |-> PartialFile],
             stats |-> failed]

(* The files step5_save_articles opens, in order: both with mode 'w' (lines
   298 and 303); it opens none for reading.  An open that fails, and the
   opens behind a failure, do not happen. *)
step5_store_accesses(outcome) ==
  CASE outcome \in {"makedirs", "open_main"} -> <<>>
    [] outcome \in {"dump_main", "open_history"} ->
         <<[op |-> "write", file |-> "articles_file"]>>
    [] outcome \in {"dump_history", "saved"} ->
         <<[op |-> "write", file |-> "articles_file"],
           [op |-> "write", file |-> "history_file"]>>

-----------------------------------------------------------------------------
(* DSNewsPipeline.run_full_pipeline (pipeline.py:323-370): where the run goes
   after a step. *)

after_step1_always_filters(collected) == "step2"

(* lines 337-339: no collected article ends the run *)
after_step1(collected) == IF collected = <<>> THEN "returned" ELSE "step2"

(* lines 344-346: no article left after filtering ends the run *)
after_step2(filtered) == IF filtered = <<>> THEN "returned" ELSE "step3"
-----------------------------------------------------------------------------
(* Idle values of the variables an operation does not use. *)

NotCalled == [called |-> FALSE]

FreshStats ==
  [original_articles |-> 0, filtered_articles |-> 0, translated_articles |-> 0,
   summarized_articles |-> 0, final_articles |-> 0, errors |-> <<>>]

NoScoreCall ==
  /\ title = <<>> /\ content = <<>> /\ source_id = <<>> /\ score = NotCalled

NoListCall ==
  /\ articles = <<>> /\ dedup = NotCalled /\ recency = NotCalled /\ step2 = NotCalled

(* A file that does not exist. *)
NoFile == [exists |-> FALSE]

EmptyStore == [articles_file |-> NoFile, history_file |-> NoFile]

NoRun ==
  /\ pc = "idle" /\ pipeline_stats = FreshStats /\ invoked = <<>> /\ store = EmptyStore
  /\ store_access = <<>>
  /\ summarizer = NotCalled /\ summary = NotCalled /\ step3 = NotCalled

-----------------------------------------------------------------------------
(* calculate_score called on a (title, content, source_id) triple *)

ScoreTitles ==
  { <<>>, <<"L","L","M"," ","G","u","i","d","e">>, <<"g","p","t"," ","n","e","w","s">>, <<"R","e","c","o","m","m","e","n","d"," ","a"," ","m","e","t","h","o","d">>,
    <<"W","h","a","t"," ","d","o"," ","y","o","u"," ","t","h","i","n","k","?"," ","r","e","c","o","m","m","e","n","d","!">>,
    <<"U+AC00","U+C774","U+B4DC"," ","U+AD6C","U+D604">>,
    <<"U+CD94","U+CC9C","U+D574","U+C8FC","U+C138","U+C694"," ","U+AC10","U+D0C4","U+C0AC">> }

ScoreContents ==
  { <<>>, <<"t","i","m","e"," ","s","e","r","i","e","s"," ","a","n","a","l","y","s","i","s">>, <<"s","e","r","i","e","s">>, <<"w","h","a","t"," ","d","o"," ","y","o","u"," ","t","h","i","n","k">> }

ScoreSourceIds ==
  { <<"t","e","c","h","c","r","u","n","c","h","_","a","i">>, <<"o","p","e","n","a","i","_","b","l","o","g">>, <<"g","o","o","g","l","e","_","d","e","v","e","l","o","p","e","r","s">>, <<"n","a","v","e","r","_","d","2">>, <<>> }

InitScore ==
  /\ now = 0
  /\ title \in ScoreTitles /\ content \in ScoreContents /\ source_id \in ScoreSourceIds
  /\ score = NotCalled
  /\ NoListCall /\ NoRun

CalculateScore ==
  /\ ~score.called
  /\ score' = [called |-> TRUE, value |-> calculate_score(title, content, source_id)]
  /\ UNCHANGED <<now, title, content, source_id, articles, dedup, recency, step2,
                 pc, pipeline_stats, invoked, store, store_access, summarizer, summary, step3>>

NextScore == CalculateScore

SpecScore == InitScore /\ [][NextScore]_vars

(* C6: calculate_score returns a value >= 0; an accumulated score below 0 is
   returned as 0. *)
ScoreNonNegative ==
  score.called =>
    /\ score.value >= 0
    /\ accumulated_score(title, content, source_id) < 0 => score.value = 0

(* An accumulated score below 0 has been clamped. *)
ScoreClampedWitness ==
  /\ score.called
  /\ accumulated_score(title, content, source_id) < 0
  /\ score.value = 0

(* `word` occurs in `text` when letter case is ignored. *)
OccursIgnoringCase(word, text) ==
  \E i \in 0..(Len(text) - Len(word)) :
    \A j \in 1..Len(word) : LowerChar(text[i + j]) = LowerChar(word[j])

(* title + ' ' + content *)
TitleAndContent == title \o <<" ">> \o content

(* The priority keywords, by index, that occur in title + ' ' + content. *)
PriorityKeywordsFound ==
  {k \in 1..Len(PRIORITY_KEYWORDS) :
     OccursIgnoringCase(PRIORITY_KEYWORDS[k].keyword, TitleAndContent)}

(* The exclusion patterns, by index, that occur in title + ' ' + content. *)
ExcludePatternsFound ==
  {k \in 1..Len(EXCLUDE_PATTERNS) : OccursIgnoringCase(EXCLUDE_PATTERNS[k], TitleAndContent)}

(* The sum of the bonuses of a set of priority keywords. *)
RECURSIVE BonusSum(_)
BonusSum(S) ==
  IF S = {} THEN 0
  ELSE LET k == CHOOSE x \in S : TRUE
       IN PRIORITY_KEYWORDS[k].bonus + BonusSum(S \ {k})

KnownSource == \E i \in 1..Len(SOURCE_BASE_SCORES) : SOURCE_BASE_SCORES[i].source_id = source_id

(* The base of the source in SOURCE_BASE_SCORES, BASE_SCORE for any other. *)
BaseOfSource ==
  IF KnownSource
  THEN (CHOOSE e \in {SOURCE_BASE_SCORES[i] : i \in 1..Len(SOURCE_BASE_SCORES)} :
          e.source_id = source_id).base
  ELSE BASE_SCORE

(* C13: calculate_score equals max(0, base + the sum of the bonuses of every
   priority keyword that occurs, ignoring case, in title + ' ' + content
   - 30 for every exclusion pattern that occurs in it); the base is the one of
   SOURCE_BASE_SCORES, or BASE_SCORE for a source that is not in the table. *)
ScoreFormula ==
  score.called =>
    score.value = Max(0, BaseOfSource + BonusSum(PriorityKeywordsFound)
                           - 30 * Cardinality(ExcludePatternsFound))

(* An unknown source with two keywords worth 20 each has scored 90. *)
ScoreFormulaWitness ==
  /\ score.called /\ ~KnownSource
  /\ Cardinality(PriorityKeywordsFound) = 2
  /\ \A k \in PriorityKeywordsFound : PRIORITY_KEYWORDS[k].bonus = 20
  /\ ExcludePatternsFound = {}
  /\ score.value = 90

(* Base 50 without a keyword and with one exclusion pattern has scored 20. *)
ScoreFormulaWitnessPenalty ==
  /\ score.called /\ BaseOfSource + BonusSum(PriorityKeywordsFound) = 50
  /\ Cardinality(ExcludePatternsFound) = 1
  /\ score.value = 20

(* A known source, keywords and a pattern at once: every match applies. *)
ScoreFormulaWitnessAll ==
  /\ score.called /\ KnownSource
  /\ Cardinality(PriorityKeywordsFound) >= 3
  /\ Cardinality(ExcludePatternsFound) >= 1
  /\ score.value > 0
-----------------------------------------------------------------------------
(* remove_duplicates called on a list of articles *)

MaxDedupLen == 3

DedupPool ==
  { [id |-> 1, url |-> <<"a",".","i","o","/","1">>, title |-> <<"l","l","m"," ","g","u","i","d","e"," ","f","o","r"," ","t","e","a","m","s">>, score |-> 70],
    [id |-> 2, url |-> <<"a",".","i","o","/","2">>, title |-> <<"g","p","t"," ","n","e","w","s"," ","t","o","d","a","y">>, score |-> 80],
    [id |-> 3, url |-> <<"a",".","i","o","/","2">>, title |-> <<"L","L","M"," ","g","u","i","d","e"," ","f","o","r"," ","t","e","a","m">>, score |-> 90],
    [id |-> 4, url |-> <<"a",".","i","o","/","2">>, title |-> <<"n","l","p"," ","e","x","p","l","a","i","n","e","d">>, score |-> 60],
    [id |-> 5, url |-> <<"a",".","i","o","/","3">>, title |-> <<"G","P","T"," ","n","e","w","s",","," ","t","o","d","a","y","!">>],
    [id |-> 6, url |-> <<>>, title |-> <<"v","i","s","i","o","n"," ","m","o","d","e","l","s">>, score |-> 75],
    [id |-> 7, title |-> <<"p","a","n","d","a","s"," ","t","i","p","s">>, score |-> 75],
    [id |-> 8, title |-> <<"r","u","s","t"," ","t","o","o","l","s">>, score |-> 65],
    [id |-> 9, url |-> <<>>, title |-> <<"b","e","r","t"," ","s","i","z","e","s">>, score |-> 85] }

Lists(pool, n) == UNION {[1..k -> pool] : k \in 0..n}

InitDedup ==
  /\ now = 0
  /\ NoScoreCall /\ NoRun
  /\ articles \in Lists(DedupPool, MaxDedupLen)
  /\ dedup = NotCalled /\ recency = NotCalled /\ step2 = NotCalled

RemoveDuplicates ==
  /\ ~dedup.called
  /\ dedup' = [called |-> TRUE] @@ remove_duplicates_logged(articles)
  /\ UNCHANGED <<now, title, content, source_id, score, articles, recency, step2,
                 pc, pipeline_stats, invoked, store, store_access, summarizer, summary, step3>>

NextDedup == RemoveDuplicates

SpecDedup == InitDedup /\ [][NextDedup]_vars

(* Two distinct positions of the list hold articles with the same non-empty url. *)
HasUrlDuplicates(list) ==
  \E i, j \in 1..Len(list) :
    /\ i # j
    /\ "url" \in DOMAIN list[i] /\ "url" \in DOMAIN list[j]
    /\ list[i].url # <<>>
    /\ list[i].url = list[j].url

(* C1: the list remove_duplicates returns has no two distinct articles with
   equal non-empty url. *)
DedupNoEqualUrls == dedup.called => ~HasUrlDuplicates(dedup.unique_articles)

(* C2: every article remove_duplicates drops, as a rejected candidate or as an
   evicted accepted article, was matched against an article that was kept in
   its place and whose score is at least the dropped article's score. *)
DedupKeepsHigherScore ==
  dedup.called =>
    \A n \in 1..Len(dedup.dropped) :
      LET d == dedup.dropped[n]
      IN /\ _is_duplicate(d.article, d.kept)
         /\ score_of(d.kept) >= score_of(d.article)

(* Same url, scores 60 then 80: the candidate evicts the accepted article and
   only the score-80 article is left; and in some order a candidate is rejected. *)
DedupKeepsHigherScoreWitness ==
  /\ dedup.called
  /\ Len(articles) = 2
  /\ Get(articles[1], "url", None) = Get(articles[2], "url", None)
  /\ score_of(articles[1]) = 60 /\ score_of(articles[2]) = 80
  /\ dedup.unique_articles = <<articles[2]>>
  /\ dedup.dropped = <<[article |-> articles[1], kept |-> articles[2], how |-> "evicted"]>>


(* Both articles lack the url key, or both have an empty url. *)
BothWithoutUrl(a, b) ==
  \/ "url" \notin DOMAIN a /\ "url" \notin DOMAIN b
  \/ "url" \in DOMAIN a /\ "url" \in DOMAIN b /\ a.url = <<>> /\ b.url = <<>>

(* The normalized titles have a similarity ratio of at least 0.8. *)
SimilarTitles(a, b) == ratio_at_least_threshold(normalized_title(a), normalized_title(b))

(* C16: two articles whose urls are both missing or both empty and whose
   titles are not similar are not duplicates under _is_duplicate, and
   remove_duplicates called on the two returns both. *)
UrlLessArticlesNotDuplicates ==
  dedup.called =>
    \A i, j \in 1..Len(articles) :
      (i < j /\ BothWithoutUrl(articles[i], articles[j])
         /\ ~SimilarTitles(articles[i], articles[j])) =>
        /\ ~_is_duplicate(articles[i], articles[j])
        /\ Len(articles) = 2 => dedup.unique_articles = articles

(* C17: no two articles of the list remove_duplicates returns are duplicates
   of each other under _is_duplicate; a candidate that replaced an accepted
   article is not kept next to another accepted article it duplicates. *)
DedupNoMutualDuplicates ==
  dedup.called =>
    \A i, j \in 1..Len(dedup.unique_articles) :
      i < j => ~_is_duplicate(dedup.unique_articles[i], dedup.unique_articles[j])

(* C28: remove_duplicates applied to its own output returns the same
   articles in the same order. *)
RemoveDuplicatesIdempotent ==
  dedup.called => remove_duplicates(dedup.unique_articles) = dedup.unique_articles

(* The same for an output in which no article duplicates another. *)
RemoveDuplicatesIdempotentWithoutDuplicates ==
  (dedup.called /\ DedupNoMutualDuplicates) =>
    remove_duplicates(dedup.unique_articles) = dedup.unique_articles

(* A call that dropped or replaced an article and whose output a second
   application leaves as it is. *)
RemoveDuplicatesSecondPassUnchanged ==
  /\ dedup.called
  /\ Len(dedup.unique_articles) = 2 /\ Len(articles) = 3
  /\ remove_duplicates(dedup.unique_articles) = dedup.unique_articles
-----------------------------------------------------------------------------
(* filter_all_articles_by_keywords called on a batch, at a time `now` *)

(* The sub-lists of `pool` with at most n articles, in the order of the pool. *)
SubLists(pool, n) ==
  { [i \in 1..Cardinality(S) |->
       pool[CHOOSE x \in S : Cardinality({y \in S : y < x}) = i - 1]] :
    S \in {T \in SUBSET (1..Len(pool)) : Cardinality(T) <= n} }

NowChoices ==
  { DateTime(2025, 1, 20, 6, "aware", 0), DateTime(2025, 6, 15, 12, "aware", 0) }

MaxRecencyBatch == 3

RecencyPool ==
  << [id |-> 1, title |-> <<"L","L","M"," ","n","e","w","s">>, content |-> <<>>, score |-> 80,
      published |-> IsoDateTime(2025, 6, 14, 12, "+00:00")],
     [id |-> 2, title |-> <<"g","p","t"," ","t","i","p","s">>, content |-> <<>>, score |-> 80,
      published |-> IsoDateTime(2025, 4, 16, 9, "Z")],
     [id |-> 3, title |-> <<"n","l","p"," ","t","o","o","l","s">>, content |-> <<>>, score |-> 80,
      published |-> IsoDateTime(2025, 4, 15, 12, "")],
     [id |-> 4, title |-> <<"l","l","m"," ","g","u","i","d","e">>, content |-> <<>>, score |-> 120,
      published |-> IsoDate(2025, 4, 1)],
     [id |-> 5, title |-> <<"g","p","t"," ","r","e","v","i","e","w">>, content |-> <<>>, score |-> 120,
      published |-> IsoDateTime(2024, 12, 25, 0, "+00:00")],
     [id |-> 6, title |-> <<"n","l","p"," ","r","e","v","i","e","w">>, content |-> <<>>, score |-> 80,
      published |-> IsoDateTime(2025, 1, 1, 3, "+09:00")],
     [id |-> 7, title |-> <<"l","l","m"," ","r","e","v","i","e","w">>, content |-> <<>>, score |-> 80,
      published |-> IsoDateTime(2024, 12, 31, 22, "-05:00")],
     [id |-> 8, title |-> <<"l","l","m"," ","u","n","d","a","t","e","d">>, content |-> <<>>, score |-> 80],
     [id |-> 9, title |-> <<"g","p","t"," ","u","n","d","a","t","e","d">>, content |-> <<>>, score |-> 80,
      published |-> EmptyStr],
     [id |-> 10, title |-> <<"n","l","p"," ","u","n","d","a","t","e","d">>, content |-> <<>>, score |-> 80,
      published |-> TextStr],
     [id |-> 11, title |-> <<"l","l","m"," ","d","i","g","e","s","t">>, content |-> <<>>, score |-> 80,
      published |-> IntValue(20250101)],
     [id |-> 12, title |-> <<"g","p","t"," ","d","i","g","e","s","t">>, content |-> <<>>, score |-> 80,
      published |-> NoneValue],
     [id |-> 13, title |-> <<"n","l","p"," ","d","i","g","e","s","t">>, content |-> <<>>, score |-> 80,
      published |-> BytesValue],
     [id |-> 14, title |-> <<"C","S","S"," ","t","r","i","c","k","s">>, content |-> <<"s","t","y","l","e","d"," ","b","y"," ","g","p","t">>, score |-> 80,
      published |-> IsoDateTime(2025, 6, 14, 12, "+00:00")],
     [id |-> 15, title |-> <<"P","a","n","d","a","s"," ","t","i","p","s">>, content |-> <<"n","u","m","p","y"," ","t","o","o">>, score |-> 80,
      published |-> IsoDateTime(2025, 6, 14, 12, "+00:00")],
     [id |-> 16, title |-> <<"n","l","p"," ","r","e","v","i","e","w">>, content |-> <<>>, score |-> 80,
      published |-> IsoDateTime(2024, 12, 31, 18, "+00:00")] >>

InitRecency ==
  /\ now \in NowChoices
  /\ NoScoreCall /\ NoRun
  /\ articles \in SubLists(RecencyPool, MaxRecencyBatch)
  /\ dedup = NotCalled /\ recency = NotCalled /\ step2 = NotCalled

FilterAllArticlesByKeywords ==
  /\ ~recency.called
  /\ recency' = [called |-> TRUE] @@ filter_all_articles_by_keywords(articles, now)
  /\ UNCHANGED <<now, title, content, source_id, score, articles, dedup, step2,
                 pc, pipeline_stats, invoked, store, store_access, summarizer, summary, step3>>

NextRecency == FilterAllArticlesByKeywords

SpecRecency == InitRecency /\ [][NextRecency]_vars

(* list membership *)
InList(x, list) == \E i \in 1..Len(list) : list[i] = x

(* The article's published field is a well-formed timestamp string. *)
HasTimestamp(a) ==
  /\ "published" \in DOMAIN a
  /\ a.published.type = "str"
  /\ a.published.form \in {"date", "datetime"}

(* The year written in the published timestamp. *)
PublishYear(a) == a.published.year

(* The instant the published timestamp denotes, in hours: the offset it
   carries is subtracted, "Z" and no offset mean UTC. *)
PublishInstant(a) ==
  LET p == a.published
  IN ToOrdinal(p.year, p.month, p.day) * 24
       + (IF p.form = "datetime" THEN p.hour ELSE 0)
       - (IF p.form = "datetime" /\ p.suffix \notin {"", "Z"}
          THEN OffsetHours(p.suffix) ELSE 0)

(* The whole days between the published instant and t. *)
AgeInDays(a, t) == (UtcHours(t) - PublishInstant(a)) \div 24

TooOldOrBelowYearFloor(a, t) ==
  HasTimestamp(a) /\ (AgeInDays(a, t) > MAX_ARTICLE_AGE_DAYS \/ PublishYear(a) < MIN_PUBLISH_YEAR)

(* C4: an article whose published timestamp is more than MAX_ARTICLE_AGE_DAYS
   whole days before now, or whose year is below MIN_PUBLISH_YEAR, is rejected
   by _is_recent_article and is not in the list that
   filter_all_articles_by_keywords returns, whatever its score. *)
RecencyGate ==
  \A i \in 1..Len(articles) :
    TooOldOrBelowYearFloor(articles[i], now) =>
      /\ _is_recent_article(articles[i], now) = Returns(FALSE)
      /\ recency.called => ~InList(articles[i], recency.filtered)

(* A batch with an article 75 days old and of score 120, which is dropped, and
   an article 60 days and 3 hours old, which is returned. *)
RecencyGateWitness ==
  /\ recency.called /\ ~recency.raised
  /\ \E i, j \in 1..Len(articles) :
       /\ HasTimestamp(articles[i])
       /\ AgeInDays(articles[i], now) = 75 /\ PublishYear(articles[i]) = 2025
       /\ score_of(articles[i]) = 120
       /\ ~InList(articles[i], recency.filtered)
       /\ HasTimestamp(articles[j])
       /\ AgeInDays(articles[j], now) = 60
       /\ InList(articles[j], recency.filtered)

(* The article's published field is missing, empty, no timestamp, or no str. *)
MalformedPublished(a) == ~HasTimestamp(a)

(* C10: whatever the value of an article's published field, the recency
   filter rejects a malformed one without raising: _is_recent_article returns
   False and filter_all_articles_by_keywords handles the whole batch. *)
MalformedPublishedRejectedWithoutRaising ==
  recency.called =>
    /\ ~recency.raised
    /\ \A i \in 1..Len(articles) :
         MalformedPublished(articles[i]) =>
           /\ _is_recent_article(articles[i], now) = Returns(FALSE)
           /\ ~InList(articles[i], recency.filtered)
    /\ \A i \in 1..Len(articles) :
         InList(articles[i], recency.filtered)
           <=> /\ _is_recent_article(articles[i], now) = Returns(TRUE)
               /\ _has_ds_ml_keywords(articles[i], TRUE)


(* title + ' ' + content in lower case, the text the keyword gate searches *)
FullText(a) == Lower(Get(a, "title", <<>>)) \o <<" ">> \o Lower(Get(a, "content", <<>>))

HasExcludedKeyword(a) == AnyKeywordIn(excluded_tech_keywords_lower, FullText(a))

HasSupplementaryKeyword(a) == AnyKeywordIn(ds_keywords_lower, FullText(a))

HasCoreKeyword(a) == AnyKeywordIn(core_keywords_lower, FullText(a))

(* C11: an article with no excluded keyword and at least one supplementary
   keyword (DS_KEYWORDS) passes the strict keyword gate, also when it has no
   core keyword; when it is recent it is in the list that
   filter_all_articles_by_keywords returns. *)
SupplementaryKeywordQualifies ==
  (recency.called /\ ~recency.raised) =>
    \A i \in 1..Len(articles) :
      (~HasExcludedKeyword(articles[i]) /\ HasSupplementaryKeyword(articles[i])) =>
        /\ _has_ds_ml_keywords(articles[i], TRUE)
        /\ _is_recent_article(articles[i], now) = Returns(TRUE)
             => InList(articles[i], recency.filtered)

(* C12: an article with an excluded keyword is rejected by the strict keyword
   gate and is not in the list that filter_all_articles_by_keywords returns,
   whatever core or supplementary keywords it has. *)
ExclusionTakesPrecedence ==
  \A i \in 1..Len(articles) :
    HasExcludedKeyword(articles[i]) =>
      /\ ~_has_ds_ml_keywords(articles[i], TRUE)
      /\ recency.called => ~InList(articles[i], recency.filtered)

(* A recent article with the excluded keyword "css" and the core keyword
   "gpt" went through the filter and was dropped. *)
ExclusionTakesPrecedenceWitness ==
  /\ recency.called /\ ~recency.raised
  /\ \E i \in 1..Len(articles) :
       /\ HasExcludedKeyword(articles[i])
       /\ HasCoreKeyword(articles[i]) /\ HasSupplementaryKeyword(articles[i])
       /\ _is_recent_article(articles[i], now) = Returns(TRUE)
       /\ ~InList(articles[i], recency.filtered)

(* C23: both the year-floor check and the age check use the publish time
   converted to UTC, so two published values that denote the same instant
   with different UTC offsets get the same decision from _is_recent_article
   and from filter_all_articles_by_keywords. *)
SameInstantSameDecision ==
  (recency.called /\ ~recency.raised) =>
    \A i, j \in 1..Len(articles) :
      (/\ HasTimestamp(articles[i]) /\ HasTimestamp(articles[j])
       /\ PublishInstant(articles[i]) = PublishInstant(articles[j])) =>
        /\ _is_recent_article(articles[i], now) = _is_recent_article(articles[j], now)
        /\ (_has_ds_ml_keywords(articles[i], TRUE) /\ _has_ds_ml_keywords(articles[j], TRUE))
             => (InList(articles[i], recency.filtered) <=> InList(articles[j], recency.filtered))
-----------------------------------------------------------------------------
(* step2_filter_articles called on a collected batch *)

PipelineNow == DateTime(2025, 6, 15, 12, "aware", 0)

Fresh == IsoDateTime(2025, 6, 14, 12, "+00:00")

Article(id, sid, url, t, c, s, published) ==
  [id |-> id, source_id |-> sid, url |-> url, title |-> t, content |-> c, score |-> s,
   published |-> published]

NewsPool ==
  << Article(101, <<"t","e","c","h","c","r","u","n","c","h","_","a","i">>, <<"a",".","i","o","/","1">>, <<"l","l","m"," ","g","u","i","d","e"," ","f","o","r"," ","t","e","a","m","s">>, <<>>, 70, Fresh),
     Article(102, <<"t","e","c","h","c","r","u","n","c","h","_","a","i">>, <<"a",".","i","o","/","2">>, <<"g","p","t"," ","n","e","w","s"," ","t","o","d","a","y">>, <<>>, 80, Fresh),
     Article(103, <<"m","i","t","_","t","e","c","h","_","r","e","v","i","e","w">>, <<"a",".","i","o","/","2">>, <<"L","L","M"," ","g","u","i","d","e"," ","f","o","r"," ","t","e","a","m">>, <<>>, 90, Fresh),
     Article(104, <<"t","e","c","h","4","2">>, <<"a",".","i","o","/","4">>, <<"n","l","p"," ","f","u","n","d","i","n","g"," ","r","o","u","n","d">>, <<>>, 60, Fresh),
     Article(105, <<"v","e","n","t","u","r","e","b","e","a","t","_","a","i">>, <<"a",".","i","o","/","5">>, <<"d","e","e","p"," ","l","e","a","r","n","i","n","g"," ","c","h","i","p","s">>, <<>>, 85, Fresh),
     Article(106, <<"z","d","n","e","t","_","a","i">>, <<"a",".","i","o","/","6">>, <<"g","p","t"," ","a","g","e","n","t","s"," ","a","t"," ","w","o","r","k">>, <<>>, 75, Fresh),
     Article(107, <<"a","i","_","t","i","m","e","s">>, <<"a",".","i","o","/","7">>, <<"t","r","a","n","s","f","o","r","m","e","r"," ","s","i","z","e","s">>, <<>>, 95, Fresh),
     Article(108, <<"t","e","c","h","c","r","u","n","c","h","_","a","i">>, <<"a",".","i","o","/","8">>, <<"n","e","u","r","a","l"," ","n","e","t","w","o","r","k"," ","p","r","u","n","i","n","g">>, <<>>, 88, Fresh) >>

BlogPool ==
  << Article(201, <<"t","o","w","a","r","d","s","_","d","a","t","a","_","s","c","i","e","n","c","e">>, <<"a",".","i","o","/","1","1">>, <<"p","a","n","d","a","s"," ","f","o","r"," ","n","l","p">>, <<>>, 80, Fresh),
     [id |-> 202, source_id |-> <<"k","d","n","u","g","g","e","t","s">>, url |-> <<"a",".","i","o","/","1","2">>,
      title |-> <<"l","l","m"," ","p","r","o","m","p","t","s"," ","t","h","a","t"," ","w","o","r","k">>, content |-> <<>>, published |-> Fresh],
     Article(203, <<"a","n","a","l","y","t","i","c","s","_","v","i","d","h","y","a">>, <<"a",".","i","o","/","1","3">>, <<"g","p","t"," ","f","i","n","e"," ","t","u","n","i","n","g">>, <<>>, 120,
             IsoDate(2025, 4, 1)),
     Article(204, <<"t","o","w","a","r","d","s","_","d","a","t","a","_","s","c","i","e","n","c","e">>, <<"a",".","i","o","/","1","4">>, <<"c","o","m","p","u","t","e","r"," ","v","i","s","i","o","n"," ","b","a","s","i","c","s">>, <<>>, 78,
             Fresh),
     Article(205, <<"k","d","n","u","g","g","e","t","s">>, <<"a",".","i","o","/","1","1">>, <<"p","a","n","d","a","s"," ","f","o","r"," ","n","l","p">>, <<>>, 120,
             IsoDate(2025, 4, 1)) >>

CompanyPool ==
  << Article(301, <<"o","p","e","n","a","i","_","b","l","o","g">>, <<"a",".","i","o","/","1">>, <<"g","p","t"," ","r","e","l","e","a","s","e"," ","n","o","t","e","s">>, <<>>, 95, Fresh),
     Article(302, <<"n","a","v","e","r","_","d","2">>, <<"a",".","i","o","/","2","2">>, <<"n","l","p"," ","s","e","a","r","c","h"," ","r","a","n","k","i","n","g">>, <<>>, 85, Fresh),
     Article(303, <<"k","a","k","a","o","_","t","e","c","h">>, <<"a",".","i","o","/","2","3">>, <<"l","l","m"," ","s","e","r","v","i","n","g"," ","s","t","a","c","k">>, <<>>, 75, Fresh) >>

OtherPool ==
  << Article(401, None, <<"a",".","i","o","/","3","1">>, <<"l","l","m"," ","e","v","a","l","u","a","t","i","o","n">>, <<>>, 90, Fresh),
     Article(402, <<"w","i","r","e","d","_","a","i">>, <<"a",".","i","o","/","3","2">>, <<"g","p","t"," ","i","n"," ","h","a","r","d","w","a","r","e">>, <<>>, 90, Fresh),
     Article(403, <<"t","e","c","h","c","r","u","n","c","h","_","a","i">>, <<"a",".","i","o","/","3","3">>, <<"l","l","m"," ","t","i","m","e","l","i","n","e">>, <<>>, 90,
             IntValue(20250101)) >>

MaxBatch == 3

(* Batches in which an article can occur more than once: a feed entry
   collected twice. *)
RepeatingBatches ==
  UNION { [1..k -> {NewsPool[2], NewsPool[4], CompanyPool[1]}] : k \in 0..MaxBatch }

(* The batches: the first articles of each collector's list, in the order in
   which step1_collect_articles joins them, followed by articles of other
   callers; and every short sub-list of all the articles. *)
Batches ==
  { Take(NewsPool, a) \o Take(BlogPool, b) \o Take(CompanyPool, c) \o others :
      a \in 0..Len(NewsPool), b \in 0..Len(BlogPool), c \in 0..Len(CompanyPool),
      others \in SubLists(OtherPool, Len(OtherPool)) }
  \cup SubLists(NewsPool \o BlogPool \o CompanyPool \o OtherPool, MaxBatch)
  \cup RepeatingBatches

InitStep2 ==
  /\ now = PipelineNow
  /\ NoScoreCall
  /\ articles \in Batches
  /\ dedup = NotCalled /\ recency = NotCalled /\ step2 = NotCalled
  /\ NoRun

Step2FilterArticles ==
  /\ ~step2.called
  /\ \E r \in {step2_filter_articles(articles, now, pipeline_stats)} :
        /\ step2' = [called |-> TRUE, path |-> r.path, raised |-> r.raised,
                     filtered_articles |-> IF r.raised THEN <<>> ELSE r.filtered_articles,
                     stages |-> step2_stages(articles, now)]
        /\ pipeline_stats' = r.stats
  /\ UNCHANGED <<now, title, content, source_id, score, articles, dedup, recency,
                 pc, invoked, store, store_access, summarizer, summary, step3>>

NextStep2 == Step2FilterArticles

SpecStep2 == InitStep2 /\ [][NextStep2]_vars

(* step2_filter_articles has returned a list. *)
Step2Returned == step2.called /\ ~step2.raised

(* C3: every article of the list step2_filter_articles returns, on the normal
   path and on the fallback path, has a score of at least MIN_SCORE_THRESHOLD;
   an article without a score counts as 0 and is dropped. *)
Step2Threshold ==
  Step2Returned =>
    \A i \in 1..Len(step2.filtered_articles) :
      /\ "score" \in DOMAIN step2.filtered_articles[i]
      /\ step2.filtered_articles[i].score >= 70

(* On the given path the batch held an article scored below the threshold and
   an article without a score, both otherwise acceptable, and the returned
   list is not empty. *)
Step2DroppedLowScore(path) ==
  /\ Step2Returned /\ step2.path = path
  /\ step2.filtered_articles # <<>>
  /\ \E i, j \in 1..Len(articles) :
       /\ "score" \in DOMAIN articles[i] /\ articles[i].score = 60
       /\ "score" \notin DOMAIN articles[j]
       /\ \A k \in {i, j} :
            /\ _is_recent_article(articles[k], now) = Returns(TRUE)
            /\ _has_ds_ml_keywords(articles[k], TRUE)

Step2ThresholdWitness == Step2DroppedLowScore("fallback")

Step2ThresholdWitnessNormal == Step2DroppedLowScore("normal")

(* The number of articles of the list that are of the category. *)
CountOf(list, category(_)) == Len(SelectSeq(list, category))

IsNewsArticle(a) == Get(a, "source_id", <<>>) # None /\ is_news(a)

IsBlogArticle(a) == Get(a, "source_id", <<>>) # None /\ is_blog(a)

IsCompanyArticle(a) == Get(a, "source_id", <<>>) # None /\ is_company(a)

(* C5: the list step2_filter_articles returns holds at most 5 news, at most 3
   practical-blog and at most 2 company-blog articles. *)
Step2QuotaUpperBound ==
  Step2Returned =>
    /\ CountOf(step2.filtered_articles, IsNewsArticle) <= 5
    /\ CountOf(step2.filtered_articles, IsBlogArticle) <= 3
    /\ CountOf(step2.filtered_articles, IsCompanyArticle) <= 2

(* C8: the list step2_filter_articles returns has no two articles with equal
   non-empty url, whatever the categories of their sources. *)
Step2NoEqualUrls == Step2Returned => ~HasUrlDuplicates(step2.filtered_articles)


(* round(n / 100) for n >= 0, a tie going to the even neighbour as Python's
   round does *)
RoundHundredths(n) ==
  LET q == n \div 100
      r == n % 100
  IN IF r < 50 THEN q
     ELSE IF r > 50 THEN q + 1
     ELSE IF q % 2 = 0 THEN q ELSE q + 1

(* clamp(round(target_total x ratio), lowest, highest), the ratio in hundredths *)
ClampedRoundedShare(target_total, ratio, lowest, highest) ==
  Max(lowest, Min(highest, RoundHundredths(target_total * ratio)))

(* The target counts by rounding, for the batch passed to step 2. *)
RoundedTargetCounts ==
  LET target_total == Min(10, Len(articles))
  IN [news    |-> ClampedRoundedShare(target_total, 50, 3, 5),
      blog    |-> ClampedRoundedShare(target_total, 30, 2, 3),
      company |-> ClampedRoundedShare(target_total, 20, 1, 2)]

(* C14: the per-category target counts step2_filter_articles uses equal
   clamp(round(target_total x ratio), min, max) with ratios 0.5, 0.3, 0.2 and
   (min, max) = (3, 5), (2, 3), (1, 2), for every target_total. *)
Step2TargetsRounded ==
  (Step2Returned /\ step2.path = "normal") => target_counts(articles) = RoundedTargetCounts

(* C15: get_top_articles returns at most 10 articles for every input list;
   on the fallback path step2_filter_articles returns what
   get_top_articles(articles) gave. *)
GetTopArticlesAtMostTen ==
  (Step2Returned /\ step2.path = "fallback") =>
    /\ step2.filtered_articles = get_top_articles(articles, now).value
    /\ Len(step2.filtered_articles) <= 10

(* The qualifying articles of a category's share of the batch: recent, on
   topic, at or above the score threshold, and deduplicated. *)
QualifyingOf(share) ==
  remove_duplicates(filter_by_score_threshold(
    filter_all_articles_by_keywords(share, now).filtered))

QualifyingNews == QualifyingOf(SelectSeq(articles, IsNewsArticle))

QualifyingBlog == QualifyingOf(SelectSeq(articles, IsBlogArticle))

QualifyingCompany == QualifyingOf(SelectSeq(articles, IsCompanyArticle))

(* `selected` holds min(target, number of qualifying) of the qualifying
   articles, and no qualifying article left out scores higher than one of them. *)
TopOfCategory(selected, qualifying, target) ==
  /\ Len(selected) = Min(target, Len(qualifying))
  /\ \A i \in 1..Len(selected) : InList(selected[i], qualifying)
  /\ \A k \in 1..Len(qualifying) :
       ~InList(qualifying[k], selected) =>
         \A i \in 1..Len(selected) : score_of(qualifying[k]) <= score_of(selected[i])

Step2SelectsTopOfEachCategory ==
  /\ TopOfCategory(SelectSeq(step2.filtered_articles, IsNewsArticle), QualifyingNews,
                   target_counts(articles).news)
  /\ TopOfCategory(SelectSeq(step2.filtered_articles, IsBlogArticle), QualifyingBlog,
                   target_counts(articles).blog)
  /\ TopOfCategory(SelectSeq(step2.filtered_articles, IsCompanyArticle), QualifyingCompany,
                   target_counts(articles).company)

(* C18: for each category step2_filter_articles selects exactly
   min(target count, number of qualifying articles) articles of the category,
   and they are the highest-scored qualifying ones. *)
Step2TopOfEachCategory == Step2Returned => Step2SelectsTopOfEachCategory

(* The same for the calls whose try block completes. *)
Step2TopOfEachCategoryNormalPath ==
  (Step2Returned /\ step2.path = "normal") => Step2SelectsTopOfEachCategory

(* Seven articles of one category qualify with a target of five, and five of
   them were selected on the normal path. *)
Step2TopFiveOfSeven ==
  /\ Step2Returned /\ step2.path = "normal"
  /\ Len(QualifyingNews) >= 6 /\ target_counts(articles).news = 5
  /\ Len(SelectSeq(step2.filtered_articles, IsNewsArticle)) = 5

(* Some category has fewer qualifying articles than its target count. *)
SomeCategoryShort ==
  \/ Len(QualifyingNews) < target_counts(articles).news
  \/ Len(QualifyingBlog) < target_counts(articles).blog
  \/ Len(QualifyingCompany) < target_counts(articles).company

(* All the qualifying articles of a category that is short are selected, and
   a category that is not short has exactly its target count. *)
AllOrTarget(selected, qualifying, target) ==
  IF Len(qualifying) < target
  THEN \A k \in 1..Len(qualifying) : InList(qualifying[k], selected)
  ELSE Len(selected) = target

Step2TakesAllWithoutPadding ==
  /\ ~step2.raised
  /\ AllOrTarget(SelectSeq(step2.filtered_articles, IsNewsArticle), QualifyingNews,
                 target_counts(articles).news)
  /\ AllOrTarget(SelectSeq(step2.filtered_articles, IsBlogArticle), QualifyingBlog,
                 target_counts(articles).blog)
  /\ AllOrTarget(SelectSeq(step2.filtered_articles, IsCompanyArticle), QualifyingCompany,
                 target_counts(articles).company)

(* C19: when a category has fewer qualifying articles than its target count,
   none included, step2_filter_articles selects all of them, raises no error
   and selects no more than the target count of any other category. *)
Step2QuotasWithoutPadding ==
  (step2.called /\ SomeCategoryShort) => Step2TakesAllWithoutPadding

(* The same for the calls whose try block completes. *)
Step2QuotasWithoutPaddingNormalPath ==
  (step2.called /\ step2.path = "normal" /\ SomeCategoryShort) => Step2TakesAllWithoutPadding

(* On the normal path a category had no qualifying article while another had
   more than its target count. *)
Step2ShortCategoryNormalPath ==
  /\ Step2Returned /\ step2.path = "normal"
  /\ QualifyingBlog = <<>>
  /\ Len(QualifyingCompany) > target_counts(articles).company
  /\ Len(SelectSeq(step2.filtered_articles, IsCompanyArticle)) = target_counts(articles).company

(* C20: the list step2_filter_articles returns is ordered by non-increasing
   score across all categories, on the normal path and on the fallback path. *)
Step2OrderedByScore ==
  Step2Returned =>
    \A i \in 1..(Len(step2.filtered_articles) - 1) :
      score_of(step2.filtered_articles[i]) >= score_of(step2.filtered_articles[i + 1])

(* On the given path the returned list has, among three articles or more, a
   company-blog article in front of a lower-scored news article. *)
Step2Interleaved(path) ==
  /\ Step2Returned /\ step2.path = path
  /\ Len(step2.filtered_articles) >= 3
  /\ \E i, j \in 1..Len(step2.filtered_articles) :
       /\ i < j
       /\ IsCompanyArticle(step2.filtered_articles[i])
       /\ IsNewsArticle(step2.filtered_articles[j])
       /\ score_of(step2.filtered_articles[i]) > score_of(step2.filtered_articles[j])

Step2OrderedByScoreWitness == Step2Interleaved("normal")

Step2OrderedByScoreWitnessFallback == Step2Interleaved("fallback")

(* The number of positions of the list that hold x. *)
Occurrences(list, x) == Cardinality({i \in 1..Len(list) : list[i] = x})

(* C21: every article of the list step2_filter_articles returns is an article
   of the input batch with every field, score included, unchanged, and occurs
   in the output at most as often as in the input. *)
Step2OnlyDropsOrForwards ==
  Step2Returned =>
    \A i \in 1..Len(step2.filtered_articles) :
      /\ InList(step2.filtered_articles[i], articles)
      /\ Occurrences(step2.filtered_articles, step2.filtered_articles[i])
           <= Occurrences(articles, step2.filtered_articles[i])

(* A batch with an article collected twice and a low-scored article: the
   first is returned once, the second not at all. *)
Step2OnlyDropsOrForwardsWitness ==
  /\ Step2Returned /\ step2.filtered_articles # <<>>
  /\ \E i, j \in 1..Len(articles) :
       /\ Occurrences(articles, articles[i]) = 2
       /\ Occurrences(step2.filtered_articles, articles[i]) = 1
       /\ score_of(articles[j]) < MIN_SCORE_THRESHOLD
       /\ ~InList(articles[j], step2.filtered_articles)

(* The number of calls of the trace that took the article through the
   recency and keyword stage. *)
TimesFiltered(trace, a) ==
  Cardinality({k \in 1..Len(trace) :
                 /\ "recency_and_keywords" \in {trace[k].stages[n] : n \in 1..Len(trace[k].stages)}
                 /\ InList(a, trace[k].input)})

(* The stages in their fixed order: the category calls, each through all its
   stages, then the quota cut and the final sort; no alternative branch; and
   no article filtered more often than it occurs in the batch. *)
StagesOnceInOrder(trace) ==
  /\ \A k \in 1..Len(trace) : trace[k].call # "fallback" /\ ~trace[k].raised
  /\ trace # <<>> /\ trace[Len(trace)].call = "quota_and_sort"
  /\ \A i \in 1..Len(articles) :
       TimesFiltered(trace, articles[i]) <= Occurrences(articles, articles[i])

(* C22: in a call of step2_filter_articles every article goes through the
   stages recency filter, keyword gate, score threshold, deduplication, quota
   allocation, final sort in this order and each at most once; no stage is
   re-entered, retried or replaced by an alternative branch. *)
Step2StagesOnceInOrder == step2.called => StagesOnceInOrder(step2.stages)

(* The same for the calls whose try block completes. *)
Step2StagesOnceInOrderNormalPath ==
  (step2.called /\ step2.path = "normal") => StagesOnceInOrder(step2.stages)

(* A call in which the articles of one category went through the filter
   twice: in the try block and again in the except branch. *)
Step2StageReentered ==
  /\ step2.called
  /\ \E i \in 1..Len(articles) : TimesFiltered(step2.stages, articles[i]) = 2

(* The source ids the three collectors of step 1 put on their articles: the
   keys of news_sources, blog_sources and company_sources. *)
CollectorSourceIds ==
  { <<"t","e","c","h","c","r","u","n","c","h","_","a","i">>, <<"m","i","t","_","t","e","c","h","_","r","e","v","i","e","w">>, <<"w","i","r","e","d","_","a","i">>, <<"t","e","c","h","4","2">>,
    <<"t","o","w","a","r","d","s","_","d","a","t","a","_","s","c","i","e","n","c","e">>, <<"a","n","a","l","y","t","i","c","s","_","v","i","d","h","y","a">>, <<"k","d","n","u","g","g","e","t","s">>, <<"n","e","p","t","u","n","e","_","a","i">>,
    <<"g","o","o","g","l","e","_","a","i">>, <<"o","p","e","n","a","i","_","b","l","o","g">>, <<"n","a","v","e","r","_","d","2">>, <<"k","a","k","a","o","_","t","e","c","h">> }

IsCollected(a) == Get(a, "source_id", <<>>) \in CollectorSourceIds

(* The number of category lists of lines 141-143 the article is put in. *)
CategoriesOf(a) ==
  (IF is_news(a) THEN 1 ELSE 0) + (IF is_blog(a) THEN 1 ELSE 0)
    + (IF is_company(a) THEN 1 ELSE 0)

(* C26: every article with a source id of NewsMediaCollector,
   PracticalBlogCollector or CompanyBlogCollector is put by
   step2_filter_articles into exactly one of the categories news, blog,
   company. *)
Step2ClassifiesCollectedOnce ==
  step2.called =>
    \A i \in 1..Len(articles) : IsCollected(articles[i]) => CategoriesOf(articles[i]) = 1

(* No collected article is counted in two categories. *)
Step2CollectedInAtMostOneCategory ==
  step2.called =>
    \A i \in 1..Len(articles) : IsCollected(articles[i]) => CategoriesOf(articles[i]) <= 1

(* A call on the single 'wired_ai' article, recent, on topic and with score
   90, completes the try block and returns no article. *)
Step2WiredArticleLeftOut ==
  /\ Step2Returned /\ step2.path = "normal"
  /\ articles = << OtherPool[2] >>
  /\ step2.filtered_articles = <<>>

(* The article passes the recency filter, the keyword gate and the score
   threshold (content_filter.py:273-275 and 248). *)
PassesGates(a, t) ==
  /\ passes_threshold(a)
  /\ _has_ds_ml_keywords(a, TRUE)
  /\ \E recent \in {_is_recent_article(a, t)} : ~recent.raised /\ recent.value

PassesGatesNow(a) == PassesGates(a, now)

(* r is what get_top_articles gave for a list and `passed` the articles of
   the list that passed the gates.  The rejected articles have no part in r:
   it is what get_top_articles gives for `passed`, and an article of `passed`
   that was not returned duplicates another article of `passed`. *)
OnlyPassedArticlesDeduplicated(r, passed) ==
  ~r.raised =>
    /\ r = get_top_articles(passed, now)
    /\ \A i \in 1..Len(passed) :
         Occurrences(r.value, passed[i]) = 0 =>
           \E j \in 1..Len(passed) : j # i /\ _is_duplicate(passed[i], passed[j])

GetTopArticlesOn(list) ==
  \A r \in {get_top_articles(list, now)}, passed \in {SelectSeq(list, PassesGatesNow)} :
    OnlyPassedArticlesDeduplicated(r, passed)

(* C27: in get_top_articles, called by step2_filter_articles, deduplication
   runs only on articles that passed the recency filter, the keyword gate and
   the score threshold: an article rejected by a gate never causes another
   article to be dropped or replaced as its duplicate, whatever its score.
   Stated for get_top_articles on the batch; the category lists of the
   batches are batches themselves. *)
Step2DedupAfterGates == step2.called => GetTopArticlesOn(articles)

(* On the given path the batch holds article 201 and article 205, which has
   201's url and title and the higher score but is too old; 201 is returned
   and 205 is not. *)
Step2KeptDespiteRejectedDuplicate(path) ==
  /\ Step2Returned /\ step2.path = path
  /\ Occurrences(articles, BlogPool[1]) = 1 /\ Occurrences(articles, BlogPool[5]) = 1
  /\ _is_duplicate(BlogPool[1], BlogPool[5])
  /\ score_of(BlogPool[5]) > score_of(BlogPool[1])
  /\ ~PassesGatesNow(BlogPool[5]) /\ PassesGatesNow(BlogPool[1])
  /\ Occurrences(step2.filtered_articles, BlogPool[1]) = 1
  /\ Occurrences(step2.filtered_articles, BlogPool[5]) = 0

Step2DedupAfterGatesWitness == Step2KeptDespiteRejectedDuplicate("normal")

Step2DedupAfterGatesWitnessFallback == Step2KeptDespiteRejectedDuplicate("fallback")
-----------------------------------------------------------------------------
(* run_ds_news_pipeline: a DSNewsPipeline is constructed and run_full_pipeline
   runs once (pipeline.py:323-370, 450-461) *)

(* The sources whose language is 'ko' (news_media_collector.py:84-90,
   company_blog_collector.py:70-83). *)
KoreanSources == {<<"t","e","c","h","4","2">>, <<"n","a","v","e","r","_","d","2">>, <<"k","a","k","a","o","_","t","e","c","h">>}

(* An article as a collector emits it (news_media_collector.py:342-354): with
   id, url, score, the source's id, published in ISO format and
   needs_translation for a source whose language is 'en'. *)
Collected(id, sid, url, t, s) ==
  [needs_translation |-> sid \notin KoreanSources] @@ Article(id, sid, url, t, <<>>, s, Fresh)

CollectedNews ==
  << Collected(501, <<"t","e","c","h","c","r","u","n","c","h","_","a","i">>, <<"a",".","i","o","/","1">>, <<"l","l","m"," ","g","u","i","d","e"," ","f","o","r"," ","t","e","a","m","s">>, 70),
     Collected(502, <<"m","i","t","_","t","e","c","h","_","r","e","v","i","e","w">>, <<"a",".","i","o","/","2">>, <<"L","L","M"," ","g","u","i","d","e"," ","f","o","r"," ","t","e","a","m">>, 90),
     Collected(503, <<"w","i","r","e","d","_","a","i">>, <<"a",".","i","o","/","3">>, <<"g","p","t"," ","i","n"," ","h","a","r","d","w","a","r","e">>, 90),
     Collected(504, <<"t","e","c","h","4","2">>, <<"a",".","i","o","/","4">>, <<"n","l","p"," ","f","u","n","d","i","n","g"," ","r","o","u","n","d">>, 72),
     Collected(502, <<"m","i","t","_","t","e","c","h","_","r","e","v","i","e","w">>, <<"a",".","i","o","/","5">>, <<"t","r","a","n","s","f","o","r","m","e","r"," ","s","i","z","e","s">>, 88) >>

CollectedBlogs ==
  << Collected(511, <<"t","o","w","a","r","d","s","_","d","a","t","a","_","s","c","i","e","n","c","e">>, <<"a",".","i","o","/","1","1">>, <<"p","a","n","d","a","s"," ","f","o","r"," ","n","l","p">>, 80),
     Collected(512, <<"k","d","n","u","g","g","e","t","s">>, <<"a",".","i","o","/","1","2">>, <<"c","s","s"," ","t","r","i","c","k","s"," ","b","y"," ","g","p","t">>, 78) >>

CollectedCompany ==
  << Collected(521, <<"o","p","e","n","a","i","_","b","l","o","g">>, <<"a",".","i","o","/","1">>, <<"g","p","t"," ","r","e","l","e","a","s","e"," ","n","o","t","e","s">>, 95),
     Collected(522, <<"n","a","v","e","r","_","d","2">>, <<"a",".","i","o","/","2","2">>, <<"n","l","p"," ","s","e","a","r","c","h"," ","r","a","n","k","i","n","g">>, 85),
     Collected(523, <<"k","a","k","a","o","_","t","e","c","h">>, <<"a",".","i","o","/","2","3">>, <<"l","l","m"," ","s","e","r","v","i","n","g"," ","s","t","a","c","k">>, 75) >>

(* The files of an earlier run. *)
OldStore ==
  LET output_data == [date |-> [year |-> 2025, month |-> 6, day |-> 14],
                      articles |-> <<CollectedCompany[2]>>]
  IN [articles_file |-> WrittenFile(output_data), history_file |-> NoFile]

InitPipeline ==
  /\ now = PipelineNow
  /\ NoScoreCall /\ NoListCall
  /\ pc = "start" /\ pipeline_stats = FreshStats /\ invoked = <<>>
  /\ store \in {EmptyStore, OldStore}
  /\ store_access = <<>>
  /\ summarizer = NotCalled /\ summary = NotCalled /\ step3 = NotCalled

Step1CollectArticles ==
  /\ pc = "start"
  /\ \E a \in 0..Len(CollectedNews), b \in 0..Len(CollectedBlogs),
        c \in 0..Len(CollectedCompany) :
       \E r \in {step1_collect_articles(Take(CollectedNews, a), Take(CollectedBlogs, b),
                                        Take(CollectedCompany, c), pipeline_stats)} :
         /\ articles' = r.all_articles
         /\ pipeline_stats' = r.stats
         /\ pc' = after_step1(r.all_articles)
  /\ invoked' = Append(invoked, "step1_collect_articles")
  /\ UNCHANGED <<now, title, content, source_id, score, dedup, recency, step2, store,
                 store_access, summarizer, summary, step3>>

(* An exception that leaves step2_filter_articles is caught at lines 362-365:
   the error is recorded and the run returns. *)
Step2Filter ==
  /\ pc = "step2"
  /\ \E r \in {step2_filter_articles(articles, now, pipeline_stats)} :
       IF r.raised
       THEN /\ pipeline_stats' =
                 [r.stats EXCEPT !.errors = Append(@, "pipeline run failed")]
            /\ pc' = "returned"
            /\ UNCHANGED articles
       ELSE /\ articles' = r.filtered_articles
            /\ pipeline_stats' = r.stats
            /\ pc' = after_step2(r.filtered_articles)
  /\ invoked' = Append(invoked, "step2_filter_articles")
  /\ UNCHANGED <<now, title, content, source_id, score, dedup, recency, step2, store,
                 store_access, summarizer, summary, step3>>

Step3Translate ==
  /\ pc = "step3"
  /\ \E service_ok \in BOOLEAN :
       \E r \in {step3_translate_articles(articles, service_ok, pipeline_stats)} :
         /\ articles' = r.result_articles
         /\ pipeline_stats' = r.stats
         /\ step3' = [called |-> TRUE, articles |-> articles,
                      result_articles |-> r.result_articles]
  /\ pc' = "step4"
  /\ invoked' = Append(invoked, "step3_translate_articles")
  /\ UNCHANGED <<now, title, content, source_id, score, dedup, recency, step2, store,
                 store_access, summarizer, summary>>

Step4Summarize ==
  /\ pc = "step4"
  /\ \E service_ok \in BOOLEAN :
       \E r \in {step4_summarize_articles(articles, service_ok, pipeline_stats)} :
         /\ articles' = r.summarized_articles
         /\ pipeline_stats' = r.stats
  /\ pc' = "step5"
  /\ invoked' = Append(invoked, "step4_summarize_articles")
  /\ UNCHANGED <<now, title, content, source_id, score, dedup, recency, step2, store,
                 store_access, summarizer, summary, step3>>

Step5Save ==
  /\ pc = "step5"
  /\ \E outcome \in SaveOutcomes :
       \E r \in {step5_save_articles(articles, now, outcome, store, pipeline_stats)} :
         /\ store' = r.store
         /\ store_access' = store_access \o step5_store_accesses(outcome)
         /\ pipeline_stats' = r.stats
  /\ pc' = "returned"
  /\ invoked' = Append(invoked, "step5_save_articles")
  /\ UNCHANGED <<now, title, content, source_id, score, articles, dedup, recency, step2,
                 summarizer, summary, step3>>

NextPipeline ==
  \/ Step1CollectArticles
  \/ Step2Filter
  \/ Step3Translate
  \/ Step4Summarize
  \/ Step5Save

SpecPipeline == InitPipeline /\ [][NextPipeline]_vars

(* step1_collect_articles has run and has collected no article. *)
CollectedNothing == pc # "start" /\ pipeline_stats.original_articles = 0

(* C9: when step1_collect_articles yields no article, run_full_pipeline
   returns at once: the filtering, translation, summarization and save steps
   are not invoked, no error is recorded, final_articles is 0 and the files
   are not written. *)
PipelineShortCircuit ==
  CollectedNothing =>
    /\ pc = "returned"
    /\ invoked = <<"step1_collect_articles">>
    /\ pipeline_stats.errors = <<>>
    /\ pipeline_stats.final_articles = 0
    /\ store \in {EmptyStore, OldStore}

(* A run that collected nothing has returned. *)
PipelineShortCircuitWitness ==
  CollectedNothing /\ pc = "returned" /\ articles = <<>>

(* The accesses of the run with the given op. *)
AccessesOf(op) == SelectSeq(store_access, LAMBDA e : e.op = op)

(* C24: a run reads the store exactly once, at its start, and writes it
   exactly once, at its end after all other stages; there is no other read or
   write during the run. *)
StoreReadOnceWrittenOnce ==
  pc = "returned" =>
    /\ Len(AccessesOf("read")) = 1
    /\ store_access[1].op = "read"
    /\ Len(SelectSeq(AccessesOf("write"), LAMBDA e : e.file = "articles_file")) = 1
    /\ store_access[Len(store_access)].op = "write"
    /\ invoked[Len(invoked)] = "step5_save_articles"

(* What the run does: it never reads the store; it writes the main file at
   most once and the history file at most once, and only in step 5. *)
StoreNeverReadWrittenAtMostOnce ==
  /\ AccessesOf("read") = <<>>
  /\ Len(store_access) <= 2
  /\ \A i, j \in 1..Len(store_access) : i < j => store_access[i].file # store_access[j].file
  /\ store_access # <<>> => invoked[Len(invoked)] = "step5_save_articles"

(* A run that saved has written both files. *)
StoreWrittenInStep5 ==
  /\ pc = "returned" /\ Len(store_access) = 2
  /\ store.articles_file.complete /\ store.history_file.complete

(* `after` is `before` with at most title_ko and content_ko added: every key
   of `before` has its value in `after`. *)
VersionOf(after, before) ==
  /\ DOMAIN before \subseteq DOMAIN after
  /\ \A k \in DOMAIN before : after[k] = before[k]

(* C29: step3_translate_articles returns a list of the length of its input in
   which position i holds the input article of position i, translated or
   not, and every article with needs_translation false is returned
   unchanged, also when two articles of the input share an id. *)
Step3KeepsPositions ==
  step3.called =>
    /\ Len(step3.result_articles) = Len(step3.articles)
    /\ \A i \in 1..Len(step3.articles) :
         /\ VersionOf(step3.result_articles[i], step3.articles[i])
         /\ ~needs_translation(step3.articles[i]) =>
              step3.result_articles[i] = step3.articles[i]

(* No two articles of the input of step 3 share an id. *)
Step3DistinctIds ==
  \A i, j \in 1..Len(step3.articles) :
    i # j => step3.articles[i].id # step3.articles[j].id

(* The same for an input in which no two articles share an id. *)
Step3KeepsPositionsForDistinctIds ==
  (step3.called /\ Step3DistinctIds) =>
    /\ Len(step3.result_articles) = Len(step3.articles)
    /\ \A i \in 1..Len(step3.articles) :
         /\ VersionOf(step3.result_articles[i], step3.articles[i])
         /\ ~needs_translation(step3.articles[i]) =>
              step3.result_articles[i] = step3.articles[i]

(* Step 3 has translated an article and left another, which needs no
   translation, as it was; the ids of the input are distinct. *)
Step3TranslatedInPlace ==
  /\ step3.called /\ Step3DistinctIds
  /\ \E i, j \in 1..Len(step3.articles) :
       /\ needs_translation(step3.articles[i])
       /\ "title_ko" \in DOMAIN step3.result_articles[i]
       /\ ~needs_translation(step3.articles[j])

(* The step from before step5_save_articles to after it in which the call
   returned False: the except branch has recorded its error (line 318). *)
SaveReturnedFalse ==
  /\ pc = "step5" /\ pc' = "returned"
  /\ pipeline_stats'.errors = Append(pipeline_stats.errors, "json save failed")

(* The step in which step5_save_articles returned True. *)
SaveReturnedTrue ==
  /\ pc = "step5" /\ pc' = "returned"
  /\ pipeline_stats'.errors = pipeline_stats.errors

(* Both files hold the document {date, articles} of this run. *)
BothFilesHold(files, output_data) ==
  /\ files.articles_file = WrittenFile(output_data)
  /\ files.history_file = WrittenFile(output_data)

(* C30: whenever step5_save_articles returns False, neither the main articles
   file nor the dated history file has been modified, and whenever it returns
   True both files hold the same {date, articles} document. *)
FailedSaveLeavesStore ==
  [][/\ SaveReturnedFalse => store' = store
     /\ SaveReturnedTrue => BothFilesHold(store', [date |-> Today(now), articles |-> articles])]_vars

(* Whenever step5_save_articles returns True both files hold the same
   {date, articles} document, and a save that failed before the main file
   was opened for writing leaves both files as they were. *)
SaveWritesBothOrFailedBeforeOpen ==
  [][/\ (SaveReturnedFalse /\ store_access' = store_access) => store' = store
     /\ SaveReturnedTrue => BothFilesHold(store', [date |-> Today(now), articles |-> articles])]_vars

(* A save has returned False after it had replaced the main file of an
   earlier run; the history file of this run is missing or incomplete. *)
FailedSaveChangedMainFile ==
  /\ pc = "returned" /\ invoked # <<>> /\ invoked[Len(invoked)] = "step5_save_articles"
  /\ "json save failed" \in {pipeline_stats.errors[i] : i \in 1..Len(pipeline_stats.errors)}
  /\ store.articles_file # OldStore.articles_file
  /\ store.articles_file.exists
  /\ store.history_file # store.articles_file
-----------------------------------------------------------------------------
(* Summarizer (summarizer.py): the kill switch of summarize_text *)

(* Summarizer.__init__ (lines 36-47): empty cache, counters 0, switch off;
   gemini_model is set when _initialize_gemini succeeded, None otherwise. *)
NewSummarizer(model_ready) ==
  [constructed |-> TRUE, called |-> FALSE,
   gemini_model |-> model_ready, summary_cache |-> <<>>,
   api_error_count |-> 0, api_total_requests |-> 0, killswitch_active |-> FALSE]

(* not content or not content.strip() *)
IsBlank(text) == \A i \in 1..Len(text) : text[i] = " "

(* key in self.summary_cache: the cache as a sequence of [key, result], the
   key of line 175, the hash of title + content, being that string *)
cached(s, key) == \E i \in 1..Len(s.summary_cache) : s.summary_cache[i].key = key

(* self.summary_cache[cache_key], for a key that is cached *)
cache_get(s, key) ==
  s.summary_cache[CHOOSE i \in 1..Len(s.summary_cache) : s.summary_cache[i].key = key].result

(* self.summary_cache[cache_key] = result, for a key that is not cached *)
cache_put(s, key, result) ==
  [s EXCEPT !.summary_cache = Append(@, [key |-> key, result |-> result])]

(* lines 140-143: more than 10 counted requests and an error rate of at
   least killswitch_threshold = 0.5 *)
error_rate_reached(s) ==
  s.api_total_requests > 10 /\ 2 * s.api_error_count >= s.api_total_requests

(* lines 140-149 reduced to line 149: the flag alone *)
check_flag_only(s) == [summarizer |-> s, value |-> s.killswitch_active]

(* _check_killswitch: the summarizer afterwards and the value returned *)
_check_killswitch(s) ==
  IF error_rate_reached(s)
  THEN [summarizer |-> [s EXCEPT !.killswitch_active = TRUE], value |-> TRUE]
  ELSE [summarizer |-> s, value |-> s.killswitch_active]

(* The result dict of summarize_text: service, success, and which text is
   the summary. *)
Result(service, success, text) == [service |-> service, success |-> success, summary |-> text]

(* lines 221-270: the counted request.  api is what generate_content does:
   "text" a response with a text, "blank" a response whose text strips to
   nothing (no error is counted, line 244 falls back), "error" an exception
   or an empty response.  A missing model is no error (line 224). *)
counted_request(s, key, api) ==
  LET counted == [s EXCEPT !.api_total_requests = @ + 1]
  IN IF s.gemini_model /\ api = "text"
     THEN [summarizer |-> cache_put(counted, key, Result("gemini", TRUE, "response_text")),
           result |-> Result("gemini", TRUE, "response_text"), api_called |-> TRUE]
     ELSE IF s.gemini_model /\ api = "error"
     THEN [summarizer |-> cache_put([counted EXCEPT !.api_error_count = @ + 1], key,
                                    Result("fallback", FALSE, "fallback_summary")),
           result |-> Result("fallback", FALSE, "fallback_summary"), api_called |-> TRUE]
     ELSE [summarizer |-> cache_put(counted, key, Result("fallback", FALSE, "fallback_summary")),
           result |-> Result("fallback", FALSE, "fallback_summary"),
           api_called |-> s.gemini_model]

(* lines 181-270, `check` being what _check_killswitch gave *)
after_check(check, key, c, api) ==
  IF check.value
  THEN [summarizer |-> cache_put(check.summarizer, key,
                                 Result("fallback_killswitch", FALSE, "fallback_summary")),
        result |-> Result("fallback_killswitch", FALSE, "fallback_summary"),
        api_called |-> FALSE]
  ELSE IF Len(c) < 50
  THEN [summarizer |-> cache_put(check.summarizer, key, Result("simple", TRUE, "title_and_content")),
        result |-> Result("simple", TRUE, "title_and_content"), api_called |-> FALSE]
  ELSE counted_request(check.summarizer, key, api)

(* summarize_text(title, content): the summarizer afterwards, the result and
   whether generate_content was called *)
summarize_text(s, t, c, api) ==
  IF IsBlank(c)
  THEN [summarizer |-> s, result |-> Result("fallback", FALSE, "title"), api_called |-> FALSE]
  ELSE IF cached(s, t \o c)
  THEN [summarizer |-> s, result |-> cache_get(s, t \o c), api_called |-> FALSE]
  ELSE after_check(_check_killswitch(s), t \o c, c, api)

(* reset_killswitch (lines 395-400) *)
reset_killswitch(s) ==
  [s EXCEPT !.killswitch_active = FALSE, !.api_error_count = 0, !.api_total_requests = 0]

(* clear_cache (lines 390-393) *)
clear_cache(s) == [s EXCEPT !.summary_cache = <<>>]

-----------------------------------------------------------------------------
(* A Summarizer is constructed and summarize_text, clear_cache and
   reset_killswitch are called on it *)

(* The number of counted requests up to which calls are followed. *)
MaxRequests == 12

SummaryTitle == <<"l","l","m">>

LongContent == [i \in 1..50 |-> "x"]

SummaryContents == { <<>>, <<" ", " ">>, <<"s","h","o","r","t"," ","t","e","x","t">>, LongContent }

InitSummarizer ==
  /\ now = PipelineNow
  /\ NoScoreCall /\ NoListCall
  /\ pc = "idle" /\ pipeline_stats = FreshStats /\ invoked = <<>>
  /\ store = EmptyStore /\ store_access = <<>>
  /\ \E model_ready \in BOOLEAN : summarizer = NewSummarizer(model_ready)
  /\ summary = NotCalled /\ step3 = NotCalled

SummarizeText ==
  /\ summarizer.api_total_requests < MaxRequests
  /\ \E c \in SummaryContents, api \in {"text", "blank", "error"} :
       \E r \in {summarize_text(summarizer, SummaryTitle, c, api)} :
         /\ summarizer' = r.summarizer
         /\ summary' = [called |-> TRUE, content |-> c,
                        blank |-> IsBlank(c),
                        was_cached |-> cached(summarizer, SummaryTitle \o c),
                        rate_reached |-> error_rate_reached(summarizer),
                        requests_before |-> summarizer.api_total_requests,
                        errors_before |-> summarizer.api_error_count,
                        result |-> r.result, api_called |-> r.api_called]
  /\ UNCHANGED <<now, title, content, source_id, score, articles, dedup, recency, step2,
                 pc, pipeline_stats, invoked, store, store_access, step3>>

ResetKillswitch ==
  /\ summarizer' = reset_killswitch(summarizer)
  /\ summary' = NotCalled
  /\ UNCHANGED <<now, title, content, source_id, score, articles, dedup, recency, step2,
                 pc, pipeline_stats, invoked, store, store_access, step3>>

ClearCache ==
  /\ summarizer' = clear_cache(summarizer)
  /\ summary' = NotCalled
  /\ UNCHANGED <<now, title, content, source_id, score, articles, dedup, recency, step2,
                 pc, pipeline_stats, invoked, store, store_access, step3>>

NextSummarizer == SummarizeText \/ ResetKillswitch \/ ClearCache

SpecSummarizer == InitSummarizer /\ [][NextSummarizer]_vars

(* The last summarize_text call found the error rate reached and its text
   not in the cache. *)
CalledWhileTripped == summary.called /\ summary.rate_reached /\ ~summary.was_cached

(* The call returned the kill-switch fallback without a request to the API
   and left the counters as they were. *)
KillswitchFallback ==
  /\ summary.result.service = "fallback_killswitch"
  /\ ~summary.api_called
  /\ summarizer.api_total_requests = summary.requests_before
  /\ summarizer.api_error_count = summary.errors_before

(* The switch is not on, and no kill-switch fallback is given, while at most
   10 requests have been counted. *)
NeverTripsEarly ==
  /\ summarizer.killswitch_active => summarizer.api_total_requests > 10
  /\ (summary.called /\ ~summary.was_cached
        /\ summary.result.service = "fallback_killswitch") => summary.requests_before > 10

(* C25 as stated: once more than 10 requests are counted with an error rate
   of at least 0.5, every summarize_text call on content that is not cached
   returns the kill-switch fallback without calling the API and without
   changing the counters, until reset_killswitch; the switch never trips
   while at most 10 requests have been counted. *)
KillswitchHoldsForUncached ==
  /\ CalledWhileTripped => KillswitchFallback
  /\ NeverTripsEarly

(* C25, for content that is not blank: once more than 10 requests are
   counted with an error rate of at least 0.5, every summarize_text call on
   non-blank content that is not cached returns the kill-switch fallback
   without calling the API and without changing the counters, until
   reset_killswitch.  Empty or whitespace-only content returns the title with
   service 'fallback' before the switch is looked at, also without a request
   and without a change of the counters.  The switch never trips while at
   most 10 requests have been counted. *)
KillswitchHoldsForUncachedText ==
  /\ (CalledWhileTripped /\ ~summary.blank) => KillswitchFallback
  /\ (CalledWhileTripped /\ summary.blank) =>
       /\ summary.result.service = "fallback" /\ ~summary.api_called
       /\ summarizer.api_total_requests = summary.requests_before
       /\ summarizer.api_error_count = summary.errors_before
  /\ NeverTripsEarly

(* The first call after the rate was reached: the flag was still off, the
   text is long and not cached, and the call set the flag and fell back. *)
KillswitchTrippedWitness ==
  /\ CalledWhileTripped /\ summary.content = LongContent
  /\ summary.requests_before = 11
  /\ KillswitchFallback
  /\ summarizer.killswitch_active
=============================================================================
